---- MODULE Spec2Model ----
(***************************************************************************)
(* Model of the live market-data streaming engine of charty:               *)
(* src/websocket.rs (ReconnectionPolicy, WebSocketManager, start_websocket)*)
(* together with its environment: the transport, the caller's stop flag    *)
(* and the receiving end of the price channel; and of the consumer's live  *)
(* data in src/ui/mod.rs (App::update_live_price, aggregate_into_candle,   *)
(* clear_live_data, load_historical_candles, UpdateThrottle, the error     *)
(* log) and in src/main.rs (run_app, handle_input, stop_websocket).        *)
(*                                                                         *)
(* Strings that the code inspects (error messages, the credential) are     *)
(* sequences of one-character strings, so that trim, to_lowercase and      *)
(* contains are computed character by character as the code computes them. *)
(* Time is counted in seconds and only passes while the engine sleeps.     *)
(***************************************************************************)
EXTENDS Integers, Sequences, FiniteSets, TLC

VARIABLES
    env_key,            \* Option<String>: std::env::var("FINNHUB_API_KEY").ok()
    api_key,            \* WebSocketManager.api_key
    mgr_status,         \* WebSocketManager.status (ConnectionStatus)
    pc,                 \* position of the engine task
    should_stop,        \* the shared stop flag
    current_attempt,    \* ReconnectionPolicy.current_attempt
    connection_result,  \* Option<ConnectionResult> of the last receive loop
    statusLog,          \* events sent on status_tx, in order
    priceLog,           \* LivePrice values sent on tx, in order
    wsOut,              \* frames written to the socket, in order
    rxOpen,             \* the receiver of the price channel is alive
    sleepLeft,          \* seconds left of the backoff sleep
    now,                \* clock, in seconds
    connects,           \* number of connect_async calls made
    sessions,           \* number of connections established
    framesRead,         \* number of inbound frames taken from the socket
    msg_in,             \* the frame in hand in the receive loop, if any
    endCause,           \* why the last receive loop returned
    \* --- ReconnectionPolicy driven on its own ---
    overflow_checks,    \* the build panics on integer overflow (debug profile)
    recorded,           \* number of increment() calls since new() or reset()
    policy_ret,         \* the last ReconnectionPolicy call and what it returned
    \* --- App: live data and candle aggregation ---
    current_candle,     \* App.current_candle: Option<Candlestick>
    live_candles,       \* App.live_candles, oldest first
    candle_interval,    \* App.candle_interval
    live_trades,        \* App.live_trades, newest first
    total_live_volume,  \* App.total_live_volume
    total_trade_count,  \* App.total_trade_count
    last_live_price,    \* App.last_live_price: Option<f64>
    ws_last_update,     \* App.ws_last_update: Option<DateTime>
    ws_error_log,       \* App.ws_error_log, oldest first
    ingests,            \* number of update_live_price calls made
    loads,              \* number of load_historical_candles calls made
    tick_interval,      \* candle_interval as it was at the last tick
    \* --- UpdateThrottle ---
    last_update,        \* UpdateThrottle.last_update, in milliseconds
    min_interval,       \* UpdateThrottle.min_interval, in milliseconds
    clock,              \* Instant::now(), in milliseconds
    calls,              \* the should_update() calls made: time and result
    \* --- run_app: the status channel, the keys, the engine tasks ---
    status_rx,          \* status events sent and not yet taken by run_app
    rx,                 \* LivePrice values sent and not yet taken by run_app
    last_taken,         \* the LivePrice run_app ingested last, if any
    ws_status,          \* App.ws_status
    logged,             \* number of add_error_to_log calls made
    app_state,          \* App.state
    input_mode,         \* App.input_mode
    input_buffer,       \* App.input_buffer
    symbol,             \* App.symbol
    selected,           \* App.popular_list_state.selected(), from 0
    stock_data,         \* App.stock_data: the symbol it was fetched for
    show_error_log,     \* App.show_error_log
    live_updates_enabled, \* App.live_updates_enabled
    ws_task_handle,     \* run_app's ws_task_handle: Option<JoinHandle>
    tasks,              \* the engine tasks spawned, in order
    keys,               \* number of keys handled
    quit                \* run_app has returned

\* the engine's variables but the policy's counter
engineRest ==
    <<env_key, api_key, mgr_status, pc, should_stop, connection_result,
      statusLog, priceLog, wsOut, rxOpen, sleepLeft, now, connects, sessions,
      framesRead, msg_in, endCause>>

policyVars ==
    <<overflow_checks, recorded, policy_ret>>

aggVars ==
    <<current_candle, live_candles, candle_interval, live_trades,
      total_live_volume, total_trade_count, last_live_price, ws_last_update,
      ws_error_log, ingests, loads, tick_interval>>

throttleVars ==
    <<last_update, min_interval, clock, calls>>

\* what handle_input works on
navVars ==
    <<app_state, input_mode, input_buffer, symbol, selected, stock_data,
      show_error_log, live_updates_enabled, ws_task_handle, tasks, keys,
      quit>>

\* the price channel as run_app sees it
feedVars ==
    <<rx, last_taken>>

appVars ==
    <<status_rx, ws_status, logged, navVars, feedVars>>

\* what the engine does not touch
otherVars ==
    <<policyVars, aggVars, throttleVars, appVars>>

vars ==
    <<env_key, api_key, mgr_status, pc, should_stop, current_attempt,
      connection_result, statusLog, priceLog, wsOut, rxOpen, sleepLeft, now,
      connects, sessions, framesRead, msg_in, endCause, otherVars>>

(* ---------------------------- bounds ----------------------------------- *)

\* polls of run_app that time out while prices arrive
MaxPolls ==
    3

\* status events sent and not yet taken by run_app
MaxPending ==
    2

\* add_error_to_log calls of a run of the error log
MaxLogged ==
    11

\* keys handled by handle_input
MaxKeys ==
    5

MaxConnects ==
    6

MaxSessions ==
    1

MaxFrames ==
    2

\* increments the policy is driven through without a reset
MaxPolicyAttempts ==
    33

\* update_live_price calls in one run
MaxIngests ==
    3

\* load_historical_candles calls in one run
MaxLoads ==
    1

\* should_update calls in one run
MaxCalls ==
    3

\* tenths of a second the throttle's clock runs for
MaxClockTicks ==
    12

(* ------------------------ program constants ---------------------------- *)

MAX_RECONNECT_ATTEMPTS ==
    5

BASE_DELAY_SECS ==
    2

MAX_DELAY_SECS ==
    32

(* --------------------------- string literals --------------------------- *)

MsgNoApiKeyLong ==
    <<"N","o"," ","A","P","I"," ","k","e","y"," ","c","o","n","f","i","g","u","r","e","d","."," ","S","e","t"," ","F","I","N","N","H","U","B","_","A","P","I","_","K","E","Y"," ","e","n","v","i","r","o","n","m","e","n","t"," ","v","a","r","i","a","b","l","e",".">>

MsgNoApiKey ==
    <<"N","o"," ","A","P","I"," ","k","e","y"," ","c","o","n","f","i","g","u","r","e","d">>

MsgSubscriptionFailed ==
    <<"S","u","b","s","c","r","i","p","t","i","o","n"," ","f","a","i","l","e","d">>

MsgAuthenticationFailed ==
    <<"A","u","t","h","e","n","t","i","c","a","t","i","o","n"," ","f","a","i","l","e","d">>

MsgFailedAfter ==
    <<"F","a","i","l","e","d"," ","t","o"," ","c","o","n","n","e","c","t"," ","a","f","t","e","r"," ","5"," ","a","t","t","e","m","p","t","s">>

PrefixFailedToConnect ==
    <<"F","a","i","l","e","d"," ","t","o"," ","c","o","n","n","e","c","t",":"," ">>

PrefixFailedToSubscribe ==
    <<"F","a","i","l","e","d"," ","t","o"," ","s","u","b","s","c","r","i","b","e",":"," ">>

PrefixWebSocketError ==
    <<"W","e","b","S","o","c","k","e","t"," ","e","r","r","o","r",":"," ">>

PatAuth ==
    <<"a","u","t","h">>

PatInvalid ==
    <<"i","n","v","a","l","i","d">>

PatApiKey ==
    <<"a","p","i"," ","k","e","y">>

Pat401 ==
    <<"4","0","1">>

Pat403 ==
    <<"4","0","3">>

PatUnauthorized ==
    <<"u","n","a","u","t","h","o","r","i","z","e","d">>

ErrConnectionReset ==
    <<"C","o","n","n","e","c","t","i","o","n"," ","r","e","s","e","t"," ","b","y"," ","p","e","e","r">>

ErrUnauthorized ==
    <<"H","T","T","P"," ","e","r","r","o","r",":"," ","4","0","1"," ","U","n","a","u","t","h","o","r","i","z","e","d">>

ErrHttp403 ==
    <<"H","T","T","P"," ","e","r","r","o","r",":"," ","4","0","3"," ","F","o","r","b","i","d","d","e","n">>

ErrInvalidToken ==
    <<"I","n","v","a","l","i","d"," ","t","o","k","e","n">>

ErrForbidden ==
    <<"F","o","r","b","i","d","d","e","n">>

UpperChars ==
    <<"A","B","C","D","E","F","G","H","I","J","K","L","M","N","O","P","Q","R","S","T","U","V","W","X","Y","Z">>

LowerChars ==
    <<"a","b","c","d","e","f","g","h","i","j","k","l","m","n","o","p","q","r","s","t","u","v","w","x","y","z">>

(* ----------------------------- Option<T> ------------------------------- *)

None ==
    <<>>

Some(x) ==
    <<x>>

IsSome(o) ==
    Len(o) = 1

Unwrap(o) ==
    o[1]

(* --------------------------- str operations ---------------------------- *)

Whitespace ==
    {" ", "\t", "\n", "\r"}

RECURSIVE TrimStartIn(_, _)
TrimStartIn(s, cs) ==
    IF Len(s) > 0 /\ Head(s) \in cs THEN TrimStartIn(Tail(s), cs) ELSE s

RECURSIVE TrimEndIn(_, _)
TrimEndIn(s, cs) ==
    IF Len(s) > 0 /\ s[Len(s)] \in cs
    THEN TrimEndIn(SubSeq(s, 1, Len(s) - 1), cs)
    ELSE s

\* str::trim
trim(s) ==
    TrimEndIn(TrimStartIn(s, Whitespace), Whitespace)

\* str::trim_matches(c)
trim_matches(s, c) ==
    TrimEndIn(TrimStartIn(s, {c}), {c})

ToLowerChar(c) ==
    IF \E i \in 1..Len(UpperChars) : UpperChars[i] = c
    THEN LowerChars[CHOOSE i \in 1..Len(UpperChars) : UpperChars[i] = c]
    ELSE c

\* str::to_lowercase
to_lowercase(s) ==
    [i \in 1..Len(s) |-> ToLowerChar(s[i])]

\* str::contains(pattern)
contains(s, pat) ==
    \E i \in 1..(Len(s) - Len(pat) + 1) : SubSeq(s, i, i + Len(pat) - 1) = pat

\* integer division of i64: truncates toward zero
TruncDiv(a, b) ==
    IF a >= 0 THEN a \div b ELSE -((-a) \div b)

Min(a, b) ==
    IF a <= b THEN a ELSE b

\* width of u32, the type of 2_u32.pow(..)
U32Bits ==
    32

\* 2_u32.pow(n) does not fit in u32
Pow2Overflows(n) ==
    n >= U32Bits

\* 2_u32.pow(n) as a build without overflow checks computes it: 2^n modulo
\* 2^32.  The value is only used under min(.., max_delay), so powers above
\* the cap are represented by cap + 1, which leaves every delay unchanged.
RECURSIVE WrappingPow2(_)
WrappingPow2(n) ==
    IF Pow2Overflows(n) THEN 0
    ELSE IF n = 0 THEN 1
    ELSE LET half == WrappingPow2(n - 1)
         IN  IF 2 * half > MAX_DELAY_SECS THEN MAX_DELAY_SECS + 1 ELSE 2 * half

Last(s) ==
    s[Len(s)]

(* ------------------------- ReconnectionPolicy -------------------------- *)

\* the delay without the cap
calculate_delay_Uncapped(attempt) ==
    BASE_DELAY_SECS * WrappingPow2(attempt)

\* ReconnectionPolicy::calculate_delay, in seconds
calculate_delay(attempt) ==
    Min(BASE_DELAY_SECS * WrappingPow2(attempt), MAX_DELAY_SECS)

\* should_retry with the comparison off by one
should_retry_OffByOne(attempt) ==
    attempt <= MAX_RECONNECT_ATTEMPTS

\* ReconnectionPolicy::should_retry
should_retry(attempt) ==
    attempt < MAX_RECONNECT_ATTEMPTS

\* ReconnectionPolicy::increment
increment(attempt) ==
    attempt + 1

\* ReconnectionPolicy::reset
reset ==
    0

(* ------------------ WebSocketStatus / ConnectionStatus ------------------ *)

StConnecting ==
    [tag |-> "Connecting"]

StConnected(since) ==
    [tag |-> "Connected", since |-> since]

StReconnecting(attempt, delay) ==
    [tag |-> "Reconnecting", attempt |-> attempt, next_retry_in |-> delay]

StError(message, recoverable) ==
    [tag |-> "Error", message |-> message, recoverable |-> recoverable]

StDisconnected ==
    [tag |-> "Disconnected"]

\* ConnectionStatus of the manager
CsConnected ==
    [tag |-> "Connected"]

CsDisconnected ==
    [tag |-> "Disconnected"]

CsConnecting ==
    [tag |-> "Connecting"]

CsError(message) ==
    [tag |-> "Error", message |-> message]

\* ConnectionResult
CrError(message) ==
    [tag |-> "Error", message |-> message]

CrDisconnected ==
    [tag |-> "Disconnected"]

(* ------------------------- failure classification ---------------------- *)

\* connect-time: the error text itself is inspected
IsAuthConnectError(e) ==
    \/ contains(to_lowercase(e), PatAuth)
    \/ contains(to_lowercase(e), Pat401)
    \/ contains(to_lowercase(e), Pat403)

\* the in-stream classification without its "auth" test
IsRecoverableStreamError_NoAuth(msg) ==
    /\ ~contains(to_lowercase(msg), PatInvalid)
    /\ ~contains(to_lowercase(msg), PatApiKey)

\* in-stream: the message returned by the receive loop is inspected
IsRecoverableStreamError(msg) ==
    /\ ~contains(to_lowercase(msg), PatAuth)
    /\ ~contains(to_lowercase(msg), PatInvalid)
    /\ ~contains(to_lowercase(msg), PatApiKey)

(* ----------------------------- environment ----------------------------- *)

\* values of FINNHUB_API_KEY
EnvKeys ==
    { None,
      Some(<<>>),
      Some(<<" ">>),
      Some(<<"\"", "\"">>),
      Some(<<"'", "'">>),
      Some(<<"\t", "\"", "'", "'", "\"", " ">>),
      Some(<<" ", "\"", "k", "\"", "\n">>) }

\* texts of the errors the transport raises
ErrorMessages ==
    { ErrConnectionReset, ErrUnauthorized, ErrHttp403, ErrInvalidToken,
      ErrForbidden }

\* elements of a trade frame's data array: p, t (milliseconds), v
TradeA ==
    [p |-> Some(10), t |-> Some(60000), v |-> Some(100)]

TradeB ==
    [p |-> Some(12), t |-> Some(61999), v |-> None]

TradeNoPrice ==
    [p |-> None, t |-> Some(62000), v |-> Some(5)]

\* a text frame: whether it parses as JSON, its "type", and its "data" when
\* that is an array
TextFrame(json, type, data) ==
    [message |-> "Text", json |-> json, type |-> type, data |-> data]

\* a frame that is not text
ControlFrame(message) ==
    [message |-> message, json |-> FALSE, type |-> "", data |-> None]

\* inbound frames: three trade frames, a ping, a text that is not JSON, a
\* JSON text of another type, a trade text whose data is not an array, and a
\* binary frame (standing for every message the match leaves to `_`)
Frames ==
    { TextFrame(TRUE, "trade", Some(<<TradeA>>)),
      TextFrame(TRUE, "trade", Some(<<TradeA, TradeB>>)),
      TextFrame(TRUE, "trade", Some(<<TradeNoPrice>>)),
      ControlFrame("Ping"),
      TextFrame(FALSE, "", None),
      TextFrame(TRUE, "news", Some(<<TradeA>>)),
      TextFrame(TRUE, "trade", None),
      ControlFrame("Binary") }

\* trade_data that does not look at the type
trade_data_AnyType(f) ==
    IF f.json /\ IsSome(f.data) THEN Unwrap(f.data) ELSE <<>>

\* the array the receive loop iterates over: json["data"] of a JSON text
\* whose type is "trade", nothing otherwise
trade_data(f) ==
    IF f.json /\ f.type = "trade" /\ IsSome(f.data) THEN Unwrap(f.data) ELSE <<>>

\* the LivePrice of a data element without the division of its timestamp
live_price_Millis(trade) ==
    [price |-> Unwrap(trade.p),
     timestamp |-> Unwrap(trade.t),
     volume |-> trade.v]

\* the LivePrice of a data element: timestamp ts / 1000, volume as_u64()
live_price(trade) ==
    [price |-> Unwrap(trade.p),
     timestamp |-> TruncDiv(Unwrap(trade.t), 1000),
     volume |-> trade.v]

\* the LivePrice values a data array yields, in array order
RECURSIVE LivePrices(_)
LivePrices(data) ==
    IF data = <<>> THEN <<>>
    ELSE LET trade == Head(data)
         IN  IF IsSome(trade.p) /\ IsSome(trade.t)
             THEN <<live_price(trade)>> \o LivePrices(Tail(data))
             ELSE LivePrices(Tail(data))

(* ------------------------------- Init ---------------------------------- *)

\* the policy is not driven on its own
PolicyIdle ==
    /\ overflow_checks = FALSE
    /\ recorded = 0
    /\ policy_ret = [op |-> "new", value |-> 0, panicked |-> FALSE]

\* App::new: no candle, empty history, one-minute candles
AggIdle ==
    /\ current_candle = None
    /\ live_candles = <<>>
    /\ candle_interval = "OneMinute"
    /\ live_trades = <<>>
    /\ total_live_volume = 0
    /\ total_trade_count = 0
    /\ last_live_price = None
    /\ ws_last_update = None
    /\ ws_error_log = <<>>
    /\ ingests = 0
    /\ loads = 0
    /\ tick_interval = candle_interval

\* App::new: UpdateThrottle::new(100ms), never asked
ThrottleIdle ==
    /\ last_update = 0
    /\ min_interval = 100
    /\ clock = 0
    /\ calls = <<>>

\* App::new and the start of run_app: the landing page, the first popular
\* symbol selected, no task, nothing sent on the status channel
AppIdle ==
    /\ status_rx = <<>>
    /\ rx = <<>>
    /\ last_taken = None
    /\ ws_status = [tag |-> "Idle"]
    /\ logged = 0
    /\ app_state = "Landing"
    /\ input_mode = FALSE
    /\ input_buffer = <<>>
    /\ symbol = <<>>
    /\ selected = 0
    /\ stock_data = None
    /\ show_error_log = FALSE
    /\ live_updates_enabled = FALSE
    /\ ws_task_handle = None
    /\ tasks = <<>>
    /\ keys = 0
    /\ quit = FALSE

\* no engine has been started
EngineIdle ==
    /\ env_key = None
    /\ api_key = None
    /\ mgr_status = CsDisconnected
    /\ pc = "start_websocket"
    /\ should_stop = FALSE
    /\ connection_result = None
    /\ statusLog = <<>>
    /\ priceLog = <<>>
    /\ wsOut = <<>>
    /\ rxOpen = TRUE
    /\ sleepLeft = 0
    /\ now = 0
    /\ connects = 0
    /\ sessions = 0
    /\ framesRead = 0
    /\ msg_in = None
    /\ endCause = "none"

Init ==
    /\ env_key \in EnvKeys
    /\ api_key = None
    /\ mgr_status = CsDisconnected
    /\ pc = "start_websocket"
    /\ should_stop = FALSE
    /\ current_attempt = 0
    /\ connection_result = None
    /\ statusLog = <<>>
    /\ priceLog = <<>>
    /\ wsOut = <<>>
    /\ rxOpen = TRUE
    /\ sleepLeft = 0
    /\ now = 0
    /\ connects = 0
    /\ sessions = 0
    /\ framesRead = 0
    /\ msg_in = None
    /\ endCause = "none"
    /\ PolicyIdle
    /\ AggIdle
    /\ ThrottleIdle
    /\ AppIdle

(* -------------------------- start_websocket ---------------------------- *)

\* the normalisation without the single-quote trim
NormalizedKey_NoSingleQuote(k) ==
    trim_matches(trim(k), "\"")

\* the credential as start_websocket normalises it
NormalizedKey(k) ==
    trim_matches(trim_matches(trim(k), "\""), "'")

StartWebsocket ==
    /\ pc = "start_websocket"
    /\ LET key == IF IsSome(env_key) THEN Some(NormalizedKey(Unwrap(env_key)))
                  ELSE None
       IN  IF ~IsSome(key) \/ Len(Unwrap(key)) = 0
           THEN /\ statusLog' = Append(statusLog, StError(MsgNoApiKeyLong, FALSE))
                /\ pc' = "done"
                /\ UNCHANGED <<api_key, mgr_status>>
           ELSE \* WebSocketManager::new
                /\ api_key' = key
                /\ mgr_status' = CsDisconnected
                /\ pc' = "manager_start"
                /\ UNCHANGED statusLog
    /\ UNCHANGED <<env_key, should_stop, current_attempt, connection_result,
                   priceLog, wsOut, rxOpen, sleepLeft, now, connects,
                   sessions, framesRead, endCause>>
    /\ UNCHANGED msg_in
    /\ UNCHANGED otherVars

\* WebSocketManager::start
ManagerStart ==
    /\ pc = "manager_start"
    /\ IF IsSome(api_key)
       THEN \* start_finnhub_websocket: a fresh ReconnectionPolicy
            /\ current_attempt' = 0
            /\ pc' = "loop_top"
            /\ UNCHANGED <<mgr_status, statusLog>>
       ELSE /\ mgr_status' = CsError(MsgNoApiKeyLong)
            /\ statusLog' = Append(statusLog, StError(MsgNoApiKey, FALSE))
            /\ pc' = "done"
            /\ UNCHANGED current_attempt
    /\ UNCHANGED <<env_key, api_key, should_stop, connection_result, priceLog,
                   wsOut, rxOpen, sleepLeft, now, connects, sessions,
                   framesRead, endCause>>
    /\ UNCHANGED msg_in
    /\ UNCHANGED otherVars

(* ----------------------- start_finnhub_websocket ----------------------- *)

\* LoopTop without the stop check
LoopTop_NoStopCheck ==
    /\ pc = "loop_top"
    /\ IF FALSE
       THEN /\ statusLog' = Append(statusLog, StDisconnected)
            /\ mgr_status' = CsDisconnected
            /\ pc' = "done"
            /\ UNCHANGED connects
       ELSE /\ connects < MaxConnects
            /\ mgr_status' = CsConnecting
            /\ statusLog' = Append(statusLog, StConnecting)
            /\ connects' = connects + 1
            /\ pc' = "connect"
    /\ UNCHANGED <<env_key, api_key, should_stop, current_attempt,
                   connection_result, priceLog, wsOut, rxOpen, sleepLeft, now,
                   sessions, framesRead, endCause>>
    /\ UNCHANGED msg_in
    /\ UNCHANGED otherVars

\* top of the reconnection loop: the stop check, then Connecting
LoopTop ==
    /\ pc = "loop_top"
    /\ IF should_stop
       THEN /\ statusLog' = Append(statusLog, StDisconnected)
            /\ mgr_status' = CsDisconnected
            /\ pc' = "done"
            /\ UNCHANGED connects
       ELSE /\ connects < MaxConnects
            /\ mgr_status' = CsConnecting
            /\ statusLog' = Append(statusLog, StConnecting)
            /\ connects' = connects + 1
            /\ pc' = "connect"
    /\ UNCHANGED <<env_key, api_key, should_stop, current_attempt,
                   connection_result, priceLog, wsOut, rxOpen, sleepLeft, now,
                   sessions, framesRead, endCause>>
    /\ UNCHANGED msg_in
    /\ UNCHANGED otherVars

\* "Attempt reconnection if policy allows"; mgr is the manager's status on entry
RetryLogic(mgr) ==
    IF should_retry(current_attempt)
    THEN /\ current_attempt' = increment(current_attempt)
         /\ statusLog' = Append(statusLog,
                StReconnecting(current_attempt', calculate_delay(current_attempt')))
         /\ sleepLeft' = calculate_delay(current_attempt')
         /\ mgr_status' = mgr
         /\ pc' = "sleep"
    ELSE /\ statusLog' = Append(statusLog, StError(MsgFailedAfter, FALSE))
         /\ mgr_status' = CsError(MsgFailedAfter)
         /\ pc' = "done"
         /\ UNCHANGED <<current_attempt, sleepLeft>>

\* ConnectOk without the reset of the policy
ConnectOk_NoReset ==
    /\ pc = "connect"
    /\ sessions < MaxSessions
    /\ sessions' = sessions + 1
    /\ UNCHANGED current_attempt
    /\ mgr_status' = CsConnected
    /\ statusLog' = Append(statusLog, StConnected(now))
    /\ endCause' = "none"
    /\ connection_result' = None
    /\ pc' = "subscribe"
    /\ UNCHANGED <<env_key, api_key, should_stop, priceLog, wsOut, rxOpen,
                   sleepLeft, now, connects, framesRead>>
    /\ UNCHANGED msg_in
    /\ UNCHANGED otherVars

\* connect_async returns Ok
ConnectOk ==
    /\ pc = "connect"
    /\ sessions < MaxSessions
    /\ sessions' = sessions + 1
    /\ current_attempt' = reset
    /\ mgr_status' = CsConnected
    /\ statusLog' = Append(statusLog, StConnected(now))
    /\ endCause' = "none"
    /\ connection_result' = None
    /\ pc' = "subscribe"
    /\ UNCHANGED <<env_key, api_key, should_stop, priceLog, wsOut, rxOpen,
                   sleepLeft, now, connects, framesRead>>
    /\ UNCHANGED msg_in
    /\ UNCHANGED otherVars

\* ConnectErr whose authentication branch does not return
ConnectErr_NoReturn(e) ==
    /\ pc = "connect"
    /\ IF IsAuthConnectError(e)
       THEN /\ statusLog' = Append(Append(statusLog,
                    StError(MsgAuthenticationFailed, FALSE)),
                    StReconnecting(increment(current_attempt),
                                   calculate_delay(increment(current_attempt))))
            /\ current_attempt' = increment(current_attempt)
            /\ sleepLeft' = calculate_delay(increment(current_attempt))
            /\ mgr_status' = CsError(PrefixFailedToConnect \o e)
            /\ pc' = "sleep"
       ELSE RetryLogic(CsError(PrefixFailedToConnect \o e))
    /\ UNCHANGED <<env_key, api_key, should_stop, connection_result, priceLog,
                   wsOut, rxOpen, now, connects, sessions, framesRead,
                   endCause>>
    /\ UNCHANGED msg_in
    /\ UNCHANGED otherVars

\* connect_async returns Err(e)
ConnectErr(e) ==
    /\ pc = "connect"
    /\ IF IsAuthConnectError(e)
       THEN /\ statusLog' = Append(statusLog, StError(MsgAuthenticationFailed, FALSE))
            /\ mgr_status' = CsError(PrefixFailedToConnect \o e)
            /\ pc' = "done"
            /\ UNCHANGED <<current_attempt, sleepLeft>>
       ELSE RetryLogic(CsError(PrefixFailedToConnect \o e))
    /\ UNCHANGED <<env_key, api_key, should_stop, connection_result, priceLog,
                   wsOut, rxOpen, now, connects, sessions, framesRead,
                   endCause>>
    /\ UNCHANGED msg_in
    /\ UNCHANGED otherVars

\* SubscribeOk that writes nothing
SubscribeOk_NoWrite ==
    /\ pc = "subscribe"
    /\ UNCHANGED wsOut
    /\ pc' = "recv"
    /\ UNCHANGED <<env_key, api_key, mgr_status, should_stop, current_attempt,
                   connection_result, statusLog, priceLog, rxOpen, sleepLeft,
                   now, connects, sessions, framesRead, endCause>>
    /\ UNCHANGED msg_in
    /\ UNCHANGED otherVars

\* the subscribe message is written
SubscribeOk ==
    /\ pc = "subscribe"
    /\ wsOut' = Append(wsOut, "subscribe")
    /\ pc' = "recv"
    /\ UNCHANGED <<env_key, api_key, mgr_status, should_stop, current_attempt,
                   connection_result, statusLog, priceLog, rxOpen, sleepLeft,
                   now, connects, sessions, framesRead, endCause>>
    /\ UNCHANGED msg_in
    /\ UNCHANGED otherVars

\* writing the subscribe message fails with e: Error{recoverable:true}, continue
SubscribeErr(e) ==
    /\ pc = "subscribe"
    /\ mgr_status' = CsError(PrefixFailedToSubscribe \o e)
    /\ statusLog' = Append(statusLog, StError(MsgSubscriptionFailed, TRUE))
    /\ pc' = "loop_top"
    /\ UNCHANGED <<env_key, api_key, should_stop, current_attempt,
                   connection_result, priceLog, wsOut, rxOpen, sleepLeft, now,
                   connects, sessions, framesRead, endCause>>
    /\ UNCHANGED msg_in
    /\ UNCHANGED otherVars

(* --------------------- handle_websocket_messages ----------------------- *)

\* top of the receive loop: the stop check
RecvCheck ==
    /\ pc = "recv"
    /\ IF should_stop
       THEN /\ connection_result' = Some(CrDisconnected)
            /\ endCause' = "stop"
            /\ pc' = "session_end"
       ELSE /\ pc' = "select"
            /\ UNCHANGED <<connection_result, endCause>>
    /\ UNCHANGED <<env_key, api_key, mgr_status, should_stop, current_attempt,
                   statusLog, priceLog, wsOut, rxOpen, sleepLeft, now,
                   connects, sessions, framesRead>>
    /\ msg_in' = None
    /\ UNCHANGED otherVars

\* select!: read.next() yields Some(Ok(frame))
RecvFrame(f) ==
    /\ pc = "select"
    /\ framesRead < MaxFrames
    /\ framesRead' = framesRead + 1
    /\ msg_in' = Some(f)
    /\ IF f.message = "Text"
       THEN IF rxOpen \/ LivePrices(trade_data(f)) = <<>>
            THEN /\ priceLog' = priceLog \o LivePrices(trade_data(f))
                 /\ pc' = "recv"
                 /\ UNCHANGED <<connection_result, endCause, wsOut>>
            ELSE \* tx.send fails on the first trade
                 /\ connection_result' = Some(CrDisconnected)
                 /\ endCause' = "sink_closed"
                 /\ pc' = "session_end"
                 /\ UNCHANGED <<priceLog, wsOut>>
       ELSE IF f.message = "Ping"
       THEN /\ wsOut' = Append(wsOut, "pong")
            /\ pc' = "recv"
            /\ UNCHANGED <<connection_result, endCause, priceLog>>
       ELSE /\ pc' = "recv"
            /\ UNCHANGED <<connection_result, endCause, priceLog, wsOut>>
    /\ UNCHANGED <<env_key, api_key, mgr_status, should_stop, current_attempt,
                   statusLog, rxOpen, sleepLeft, now, connects, sessions>>
    /\ UNCHANGED otherVars

\* select!: read.next() yields Some(Err(e))
RecvErr(e) ==
    /\ pc = "select"
    /\ connection_result' = Some(CrError(PrefixWebSocketError \o e))
    /\ endCause' = "error"
    /\ pc' = "session_end"
    /\ UNCHANGED <<env_key, api_key, mgr_status, should_stop, current_attempt,
                   statusLog, priceLog, wsOut, rxOpen, sleepLeft, now,
                   connects, sessions, framesRead>>
    /\ UNCHANGED msg_in
    /\ UNCHANGED otherVars

\* select!: read.next() yields None
RecvEnd ==
    /\ pc = "select"
    /\ connection_result' = Some(CrDisconnected)
    /\ endCause' = "eof"
    /\ pc' = "session_end"
    /\ UNCHANGED <<env_key, api_key, mgr_status, should_stop, current_attempt,
                   statusLog, priceLog, wsOut, rxOpen, sleepLeft, now,
                   connects, sessions, framesRead>>
    /\ UNCHANGED msg_in
    /\ UNCHANGED otherVars

\* select!: the 100ms idle sleep wins
IdleTick ==
    /\ pc = "select"
    /\ pc' = "recv"
    /\ UNCHANGED <<env_key, api_key, mgr_status, should_stop, current_attempt,
                   connection_result, statusLog, priceLog, wsOut, rxOpen,
                   sleepLeft, now, connects, sessions, framesRead, endCause>>
    /\ UNCHANGED msg_in
    /\ UNCHANGED otherVars

\* SessionEnd without the stop check
SessionEnd_NoStopCheck ==
    /\ pc = "session_end"
    /\ UNCHANGED wsOut
    /\ LET res == Unwrap(connection_result)
       IN  IF res.tag = "Error" /\ ~IsRecoverableStreamError(res.message)
           THEN /\ statusLog' = Append(statusLog, StError(res.message, FALSE))
                /\ mgr_status' = CsError(res.message)
                /\ pc' = "done"
                /\ UNCHANGED <<current_attempt, sleepLeft>>
           ELSE RetryLogic(mgr_status)
    /\ connection_result' = None
    /\ endCause' = "none"
    /\ UNCHANGED <<env_key, api_key, should_stop, priceLog, rxOpen, now,
                   connects, sessions, framesRead>>
    /\ msg_in' = None
    /\ UNCHANGED otherVars

\* "Connection ended - check why"
SessionEnd ==
    /\ pc = "session_end"
    /\ IF should_stop
       THEN \* the unsubscribe write; its result is ignored
            /\ wsOut' = Append(wsOut, "unsubscribe")
            /\ pc' = "disconnecting"
            /\ UNCHANGED <<statusLog, mgr_status, current_attempt, sleepLeft,
                           connection_result, endCause>>
       ELSE /\ UNCHANGED wsOut
            /\ LET res == Unwrap(connection_result)
               IN  IF res.tag = "Error" /\ ~IsRecoverableStreamError(res.message)
                   THEN /\ statusLog' = Append(statusLog, StError(res.message, FALSE))
                        /\ mgr_status' = CsError(res.message)
                        /\ pc' = "done"
                        /\ UNCHANGED <<current_attempt, sleepLeft>>
                   ELSE RetryLogic(mgr_status)
            \* connection_result goes out of scope with the match arm
            /\ connection_result' = None
            /\ endCause' = "none"
    /\ UNCHANGED <<env_key, api_key, should_stop, priceLog, rxOpen, now,
                   connects, sessions, framesRead>>
    /\ msg_in' = None
    /\ UNCHANGED otherVars

\* the user's stop after a session: Disconnected, return
SessionDisconnect ==
    /\ pc = "disconnecting"
    /\ statusLog' = Append(statusLog, StDisconnected)
    /\ mgr_status' = CsDisconnected
    /\ pc' = "done"
    /\ connection_result' = None
    /\ endCause' = "none"
    /\ UNCHANGED <<env_key, api_key, should_stop, current_attempt, priceLog,
                   wsOut, rxOpen, sleepLeft, now, connects, sessions,
                   framesRead, msg_in>>
    /\ UNCHANGED otherVars

(* ----------------------------- backoff sleep --------------------------- *)

\* one second of tokio::time::sleep(delay) passes
Tick ==
    /\ pc = "sleep"
    /\ sleepLeft > 0
    /\ sleepLeft' = sleepLeft - 1
    /\ now' = now + 1
    /\ UNCHANGED <<env_key, api_key, mgr_status, pc, should_stop,
                   current_attempt, connection_result, statusLog, priceLog,
                   wsOut, rxOpen, connects, sessions, framesRead, endCause>>
    /\ UNCHANGED msg_in
    /\ UNCHANGED otherVars

\* Wake that retries the connection without passing the loop top
Wake_ToConnect ==
    /\ pc = "sleep"
    /\ sleepLeft = 0
    /\ pc' = "connect"
    /\ UNCHANGED <<env_key, api_key, mgr_status, should_stop, current_attempt,
                   connection_result, statusLog, priceLog, wsOut, rxOpen,
                   sleepLeft, now, connects, sessions, framesRead, endCause>>
    /\ UNCHANGED msg_in
    /\ UNCHANGED otherVars

\* the sleep has elapsed: back to the top of the loop
Wake ==
    /\ pc = "sleep"
    /\ sleepLeft = 0
    /\ pc' = "loop_top"
    /\ UNCHANGED <<env_key, api_key, mgr_status, should_stop, current_attempt,
                   connection_result, statusLog, priceLog, wsOut, rxOpen,
                   sleepLeft, now, connects, sessions, framesRead, endCause>>
    /\ UNCHANGED msg_in
    /\ UNCHANGED otherVars

(* ------------------------------ the caller ----------------------------- *)

\* the caller sets the stop flag
SetStop ==
    /\ pc # "start_websocket"
    /\ ~should_stop
    /\ should_stop' = TRUE
    /\ UNCHANGED <<env_key, api_key, mgr_status, pc, current_attempt,
                   connection_result, statusLog, priceLog, wsOut, rxOpen,
                   sleepLeft, now, connects, sessions, framesRead, endCause>>
    /\ UNCHANGED msg_in
    /\ UNCHANGED otherVars

\* the receiving end of the price channel is dropped
DropReceiver ==
    /\ pc = "select"
    /\ rxOpen
    /\ rxOpen' = FALSE
    /\ UNCHANGED <<env_key, api_key, mgr_status, pc, should_stop,
                   current_attempt, connection_result, statusLog, priceLog,
                   wsOut, sleepLeft, now, connects, sessions, framesRead,
                   endCause>>
    /\ UNCHANGED msg_in
    /\ UNCHANGED otherVars

Next ==
    \/ StartWebsocket
    \/ ManagerStart
    \/ LoopTop
    \/ ConnectOk
    \/ \E e \in ErrorMessages : ConnectErr(e)
    \/ SubscribeOk
    \/ \E e \in ErrorMessages : SubscribeErr(e)
    \/ RecvCheck
    \/ \E f \in Frames : RecvFrame(f)
    \/ \E e \in ErrorMessages : RecvErr(e)
    \/ RecvEnd
    \/ IdleTick
    \/ SessionEnd
    \/ SessionDisconnect
    \/ Tick
    \/ Wake
    \/ SetStop
    \/ DropReceiver

Spec ==
    Init /\ [][Next]_vars

\* stop_websocket after it has set the flag: the 100ms are over and the
\* engine is still in its backoff sleep or in connect_async; handle.abort()
\* ends the task there
Abort ==
    /\ should_stop
    /\ \/ pc = "sleep" /\ sleepLeft > 0
       \/ pc = "connect"
    /\ pc' = "aborted"
    /\ UNCHANGED <<env_key, api_key, mgr_status, should_stop, current_attempt,
                   connection_result, statusLog, priceLog, wsOut, rxOpen,
                   sleepLeft, now, connects, sessions, framesRead, endCause>>
    /\ UNCHANGED msg_in
    /\ UNCHANGED otherVars

NextStop ==
    \/ Next
    \/ Abort

SpecStop ==
    Init /\ [][NextStop]_vars

(* ----------------------- the engine's control alone -------------------- *)

\* The engine's control on its own: its position, the attempt counter, the
\* remaining sleep, the manager's status and the session's result. What the
\* engine emits (statusLog, priceLog, wsOut) and the clock's reading record a
\* run and do not influence any step of it, so the actions below leave them
\* as they are: the states are finitely many and a run that reconnects
\* forever is a cycle. StartWebsocket, ManagerStart, RecvCheck, RecvErr,
\* RecvEnd, IdleTick and Wake emit nothing and are taken as they are.
OutputsUnchanged ==
    /\ UNCHANGED <<env_key, api_key, should_stop, statusLog, priceLog, wsOut,
                   rxOpen, now, connects, sessions, framesRead, msg_in>>
    /\ UNCHANGED otherVars

\* top of the reconnection loop
ControlLoopTop ==
    /\ pc = "loop_top"
    /\ IF should_stop
       THEN /\ mgr_status' = CsDisconnected
            /\ pc' = "done"
       ELSE /\ mgr_status' = CsConnecting
            /\ pc' = "connect"
    /\ UNCHANGED <<current_attempt, connection_result, sleepLeft, endCause>>
    /\ OutputsUnchanged

\* "Attempt reconnection if policy allows"
ControlRetryLogic(mgr) ==
    IF should_retry(current_attempt)
    THEN /\ current_attempt' = increment(current_attempt)
         /\ sleepLeft' = calculate_delay(current_attempt')
         /\ mgr_status' = mgr
         /\ pc' = "sleep"
    ELSE /\ mgr_status' = CsError(MsgFailedAfter)
         /\ pc' = "done"
         /\ UNCHANGED <<current_attempt, sleepLeft>>

\* connect_async returns Ok: the policy is reset
ControlConnectOk ==
    /\ pc = "connect"
    /\ current_attempt' = reset
    /\ mgr_status' = CsConnected
    /\ endCause' = "none"
    /\ connection_result' = None
    /\ pc' = "subscribe"
    /\ UNCHANGED sleepLeft
    /\ OutputsUnchanged

\* connect_async returns Err(e)
ControlConnectErr(e) ==
    /\ pc = "connect"
    /\ IF IsAuthConnectError(e)
       THEN /\ mgr_status' = CsError(PrefixFailedToConnect \o e)
            /\ pc' = "done"
            /\ UNCHANGED <<current_attempt, sleepLeft>>
       ELSE ControlRetryLogic(CsError(PrefixFailedToConnect \o e))
    /\ UNCHANGED <<connection_result, endCause>>
    /\ OutputsUnchanged

\* the subscribe message is written
ControlSubscribeOk ==
    /\ pc = "subscribe"
    /\ pc' = "recv"
    /\ UNCHANGED <<mgr_status, current_attempt, connection_result, sleepLeft,
                   endCause>>
    /\ OutputsUnchanged

\* writing the subscribe message fails with e: continue
ControlSubscribeErr(e) ==
    /\ pc = "subscribe"
    /\ mgr_status' = CsError(PrefixFailedToSubscribe \o e)
    /\ pc' = "loop_top"
    /\ UNCHANGED <<current_attempt, connection_result, sleepLeft, endCause>>
    /\ OutputsUnchanged

\* "Connection ended - check why", the stop flag not set
ControlSessionEnd ==
    /\ pc = "session_end"
    /\ ~should_stop
    /\ LET res == Unwrap(connection_result)
       IN  IF res.tag = "Error" /\ ~IsRecoverableStreamError(res.message)
           THEN /\ mgr_status' = CsError(res.message)
                /\ pc' = "done"
                /\ UNCHANGED <<current_attempt, sleepLeft>>
           ELSE ControlRetryLogic(mgr_status)
    /\ connection_result' = None
    /\ endCause' = "none"
    /\ UNCHANGED <<env_key, api_key, should_stop, statusLog, priceLog, wsOut,
                   rxOpen, now, connects, sessions, framesRead>>
    /\ msg_in' = None
    /\ UNCHANGED otherVars

\* one second of tokio::time::sleep(delay) passes
ControlTick ==
    /\ pc = "sleep"
    /\ sleepLeft > 0
    /\ sleepLeft' = sleepLeft - 1
    /\ UNCHANGED <<mgr_status, pc, current_attempt, connection_result,
                   endCause>>
    /\ OutputsUnchanged

\* the session fails: a stream error or the end of the stream
SessionFails ==
    \/ \E e \in ErrorMessages : RecvErr(e)
    \/ RecvEnd

\* the engine with the stop flag never set
NextControl ==
    \/ StartWebsocket
    \/ ManagerStart
    \/ ControlLoopTop
    \/ ControlConnectOk
    \/ \E e \in ErrorMessages : ControlConnectErr(e)
    \/ ControlSubscribeOk
    \/ \E e \in ErrorMessages : ControlSubscribeErr(e)
    \/ RecvCheck
    \/ IdleTick
    \/ SessionFails
    \/ ControlSessionEnd
    \/ ControlTick
    \/ Wake

\* the task is scheduled as long as it can take a step, and every session
\* fails in the end
SpecControl ==
    /\ Init
    /\ [][NextControl]_vars
    /\ WF_vars(NextControl)
    /\ SF_vars(SessionFails)

(* ======================= properties of the engine ====================== *)

IsFatalError(ev) ==
    ev.tag = "Error" /\ ~ev.recoverable

\* what a status event is, leaving out its delay, time and message
Shape(ev) ==
    IF ev.tag = "Reconnecting" THEN <<"Reconnecting", ev.attempt>>
    ELSE IF ev.tag = "Error" THEN <<"Error", IF ev.recoverable THEN 1 ELSE 0>>
    ELSE <<ev.tag, 0>>

Shapes(log) ==
    [i \in 1..Len(log) |-> Shape(log[i])]

IsPrefix(s, t) ==
    Len(s) <= Len(t) /\ s = SubSeq(t, 1, Len(s))

InSession ==
    {"recv", "select", "session_end", "disconnecting"}

(* ---- C1 ---- *)

C1Expected ==
    << <<"Connecting", 0>>, <<"Reconnecting", 1>>,
       <<"Connecting", 0>>, <<"Reconnecting", 2>>,
       <<"Connecting", 0>>, <<"Reconnecting", 3>>,
       <<"Connecting", 0>>, <<"Reconnecting", 4>>,
       <<"Connecting", 0>>, <<"Reconnecting", 5>>,
       <<"Connecting", 0>>, <<"Error", 0>> >>

\* credential present, stop flag never set, no attempt connected and none
\* failed with an authentication error
C1Scenario ==
    /\ IsSome(api_key)
    /\ ~should_stop
    /\ \A i \in 1..Len(statusLog) :
          /\ statusLog[i].tag # "Connected"
          /\ statusLog[i] # StError(MsgAuthenticationFailed, FALSE)

\* C1: when a credential is present, the stop flag is never set and every
\* connection attempt fails at connect time with a recoverable error, the
\* status events are Connecting, Reconnecting{1}, Connecting, Reconnecting{2},
\* ... Reconnecting{5}, Connecting and then one terminal Error{recoverable:
\* false}, after which the engine has returned: the attempts start at 1 and
\* grow by exactly 1 up to 5 and no Reconnecting follows the Error.
C1_RetrySequence ==
    C1Scenario =>
        /\ IsPrefix(Shapes(statusLog), C1Expected)
        /\ pc = "done" => Shapes(statusLog) = C1Expected

C1_Witness ==
    /\ C1Scenario
    /\ pc = "done"
    /\ Len(statusLog) = 12
    /\ statusLog[12] = StError(MsgFailedAfter, FALSE)

(* ---- C2 ---- *)

\* the transport errors whose text contains "unauthorized" in any letter case
UnauthorizedMessages ==
    {e \in ErrorMessages : contains(to_lowercase(e), PatUnauthorized)}

\* C2: an error whose message contains "unauthorized", raised at connect
\* time or in-stream with the stop flag not set, is answered by exactly one
\* Error{recoverable:false} and the engine's return; no Reconnecting is
\* emitted for it and no further connection attempt is made.
C2_UnauthorizedIsFatal ==
    [][(\/ /\ pc = "connect"
           /\ mgr_status' \in {CsError(PrefixFailedToConnect \o e) :
                                   e \in UnauthorizedMessages}
        \/ /\ pc = "session_end"
           /\ pc' # "session_end"
           /\ ~should_stop
           /\ connection_result \in
                  {Some(CrError(PrefixWebSocketError \o e)) :
                      e \in UnauthorizedMessages})
          => /\ pc' = "done"
             /\ Len(statusLog') = Len(statusLog) + 1
             /\ IsFatalError(Last(statusLog'))
             /\ connects' = connects
             /\ current_attempt' = current_attempt]_vars

C2_Witness ==
    /\ pc = "done"
    /\ ~should_stop
    /\ statusLog # <<>>
    /\ Last(statusLog) = StError(PrefixWebSocketError \o ErrUnauthorized, FALSE)
    /\ \A i \in 1..Len(statusLog) : statusLog[i].tag # "Reconnecting"

(* ---- C3 ---- *)

C4_FirstBackoffIsBase ==
    (/\ Len(statusLog) >= 4
     /\ Shapes(SubSeq(statusLog, 1, 4))
            = << <<"Connecting", 0>>, <<"Reconnecting", 1>>,
                 <<"Connecting", 0>>, <<"Connected", 0>> >>)
    => /\ statusLog[2] = StReconnecting(1, BASE_DELAY_SECS)
       /\ statusLog[4].since = BASE_DELAY_SECS

(* ---- C5 ---- *)

\* credentials that are absent, or empty once whitespace and the
\* surrounding quotes are trimmed
C5EmptyKeys ==
    { None,
      Some(<<>>),
      Some(<<" ">>),
      Some(<<"\"", "\"">>),
      Some(<<"'", "'">>),
      Some(<<"\t", "\"", "'", "'", "\"", " ">>) }

\* C5: with the credential absent or empty, start_websocket emits exactly
\* one status event, Error{recoverable:false}, and returns: no Connecting,
\* no connection attempt, no price event.
C5_MissingCredential ==
    env_key \in C5EmptyKeys =>
        /\ connects = 0
        /\ priceLog = <<>>
        /\ wsOut = <<>>
        /\ \/ pc = "start_websocket" /\ statusLog = <<>>
           \/ pc = "done" /\ statusLog = <<StError(MsgNoApiKeyLong, FALSE)>>

C5_Witness ==
    /\ env_key = Some(<<"\t", "\"", "'", "'", "\"", " ">>)
    /\ pc = "done"
    /\ Len(statusLog) = 1

(* ---- C6 ---- *)

HasFatalError ==
    \E i \in 1..Len(statusLog) : IsFatalError(statusLog[i])

\* C6: Error{recoverable:false} is terminal: once it is in the status
\* stream no status event, no price event, no outbound frame and no
\* connection attempt follows, so it stays the last status of the run.
C6_FatalIsTerminal ==
    [][HasFatalError
          => /\ statusLog' = statusLog
             /\ priceLog' = priceLog
             /\ wsOut' = wsOut
             /\ connects' = connects
             /\ pc' = "done"
             /\ IsFatalError(Last(statusLog))]_vars

C6_Witness ==
    /\ HasFatalError
    /\ Last(statusLog) = StError(MsgFailedAfter, FALSE)
    /\ should_stop

(* ---- C7 ---- *)

\* C7: a failed subscribe goes through the retry logic: an attempt is
\* recorded, Reconnecting is emitted and the engine sleeps the backoff
\* delay before the next Connecting.
C7_SubscribeErrorBacksOff ==
    [][(pc = "subscribe" /\ mgr_status'.tag = "Error")
          => /\ pc' = "sleep"
             /\ current_attempt' = current_attempt + 1
             /\ Last(statusLog').tag = "Reconnecting"
             /\ sleepLeft' = Last(statusLog').next_retry_in]_vars

(* ---- C8 ---- *)

\* C8: the backoff sleep is interruptible: with the stop flag set and time
\* left to sleep, the engine's next step is to emit Disconnected and return;
\* it does not sleep on.
C8_SleepInterruptible ==
    [][(pc = "sleep" /\ should_stop /\ sleepLeft > 0)
          => /\ pc' = "done"
             /\ statusLog' = Append(statusLog, StDisconnected)
             /\ now' = now]_vars

(* ---- C9 ---- *)

\* C9: a receive loop that ended because the price sink is closed, with the
\* stop flag not set, is a clean stop: no Error, no Reconnecting, no further
\* connection attempt.
C9_SinkClosedIsCleanStop ==
    [][(pc = "session_end" /\ pc' # "session_end" /\ endCause = "sink_closed"
        /\ ~should_stop)
          => /\ connection_result = Some(CrDisconnected)
             /\ pc' = "done"
             /\ \A i \in 1..Len(statusLog') :
                   i > Len(statusLog)
                       => statusLog'[i].tag \notin {"Error", "Reconnecting"}]_vars

(* ---- C10 ---- *)

\* C10: every failure the engine runs into (connect error, subscribe error,
\* in-stream transport error) is answered by an Error event on the status
\* channel.
C10_EveryErrorIsReported ==
    [][(\/ pc = "connect" /\ mgr_status'.tag = "Error"
        \/ pc = "subscribe" /\ mgr_status'.tag = "Error"
        \/ /\ pc = "session_end"
           /\ pc' # "session_end"
           /\ ~should_stop
           /\ Unwrap(connection_result).tag = "Error")
          => /\ Len(statusLog') > Len(statusLog)
             /\ statusLog'[Len(statusLog) + 1].tag = "Error"]_vars

(* ---- C11 ---- *)

PatForbidden ==
    <<"f", "o", "r", "b", "i", "d", "d", "e", "n">>

\* the transport errors whose text is in the authentication/authorization
\* vocabulary: unauthorized, invalid key/token, forbidden, in any letter case
VocabularyMessages ==
    {e \in ErrorMessages :
        \/ contains(to_lowercase(e), PatUnauthorized)
        \/ contains(to_lowercase(e), PatInvalid)
        \/ contains(to_lowercase(e), PatForbidden)}

\* C11: failure classification depends only on the error message: at connect
\* time and in-stream alike, an error is answered by Error{recoverable:false}
\* and the engine's return if and only if its message is in the
\* authentication/authorization vocabulary, and every other error enters the
\* retry logic.
C11_ClassificationByMessage ==
    [][/\ (/\ pc = "connect"
           /\ mgr_status' \in {CsError(PrefixFailedToConnect \o e) :
                                   e \in ErrorMessages})
          => ((/\ pc' = "done"
               /\ Last(statusLog') = StError(MsgAuthenticationFailed, FALSE))
              <=> mgr_status' \in {CsError(PrefixFailedToConnect \o e) :
                                      e \in VocabularyMessages})
       /\ (/\ pc = "session_end"
           /\ pc' # "session_end"
           /\ ~should_stop
           /\ connection_result \in
                  {Some(CrError(PrefixWebSocketError \o e)) :
                      e \in ErrorMessages})
          => ((/\ pc' = "done"
               /\ IsFatalError(Last(statusLog')))
              <=> connection_result \in
                      {Some(CrError(PrefixWebSocketError \o e)) :
                          e \in VocabularyMessages})]_vars

(* ---- C12 ---- *)

C12Delays ==
    <<2, 4, 8, 16, 32>>

\* C12: while no connection attempt has succeeded, the backoff delays are
\* 2s, 4s, 8s, 16s, 32s in that order (the delay announced for retry n is the
\* n-th of them), and the time spent waiting in backoff is at most 62s.
C12_BackoffDelays ==
    (\A i \in 1..Len(statusLog) : statusLog[i].tag # "Connected")
    => /\ \A i \in 1..Len(statusLog) :
             statusLog[i].tag = "Reconnecting"
             => /\ statusLog[i].attempt \in 1..Len(C12Delays)
                /\ statusLog[i].next_retry_in = C12Delays[statusLog[i].attempt]
       /\ now <= 62

(* ===================== ReconnectionPolicy on its own =================== *)

\* what the last call on the policy returned
PolicyRet(op, value, panicked) ==
    [op |-> op, value |-> value, panicked |-> panicked]

\* ReconnectionPolicy::new(), in a build with or without overflow checks
InitPolicy ==
    /\ EngineIdle
    /\ current_attempt = 0
    /\ overflow_checks \in BOOLEAN
    /\ recorded = 0
    /\ policy_ret = PolicyRet("new", 0, FALSE)
    /\ AggIdle
    /\ ThrottleIdle
    /\ AppIdle

\* policy.increment()
PolicyIncrement ==
    /\ ~policy_ret.panicked
    /\ recorded < MaxPolicyAttempts
    /\ current_attempt' = increment(current_attempt)
    /\ recorded' = recorded + 1
    /\ policy_ret' = PolicyRet("increment", 0, FALSE)
    /\ UNCHANGED <<overflow_checks, engineRest, aggVars, throttleVars,
                   appVars>>

\* policy.reset()
PolicyReset ==
    /\ ~policy_ret.panicked
    /\ current_attempt' = reset
    /\ recorded' = 0
    /\ policy_ret' = PolicyRet("reset", 0, FALSE)
    /\ UNCHANGED <<overflow_checks, engineRest, aggVars, throttleVars,
                   appVars>>

\* policy.should_retry()
PolicyShouldRetry ==
    /\ ~policy_ret.panicked
    /\ policy_ret' = PolicyRet("should_retry", should_retry(current_attempt), FALSE)
    /\ UNCHANGED <<current_attempt, recorded, overflow_checks, engineRest,
                   aggVars, throttleVars, appVars>>

\* policy.calculate_delay(): 2_u32.pow(current_attempt) panics on overflow
\* when the build checks arithmetic, and wraps otherwise
PolicyCalculateDelay ==
    /\ ~policy_ret.panicked
    /\ policy_ret' =
          IF overflow_checks /\ Pow2Overflows(current_attempt)
          THEN PolicyRet("calculate_delay", 0, TRUE)
          ELSE PolicyRet("calculate_delay", calculate_delay(current_attempt), FALSE)
    /\ UNCHANGED <<current_attempt, recorded, overflow_checks, engineRest,
                   aggVars, throttleVars, appVars>>

NextPolicy ==
    \/ PolicyIncrement
    \/ PolicyReset
    \/ PolicyShouldRetry
    \/ PolicyCalculateDelay

SpecPolicy ==
    InitPolicy /\ [][NextPolicy]_vars

(* ---- C13 ---- *)

C13Delays ==
    <<2, 4, 8, 16, 32>>

\* C13: for every attempt_count in 0..4 calculate_delay returns
\* min(2 * 2^attempt_count, 32) seconds, for every attempt_count >= 4 it
\* returns exactly 32 seconds, and the call leaves attempt_count as the
\* number of attempts recorded since the last reset.
C13_DelayIsCapped ==
    policy_ret.op = "calculate_delay"
    => /\ ~policy_ret.panicked
       /\ current_attempt = recorded
       /\ recorded <= 4 => policy_ret.value = C13Delays[recorded + 1]
       /\ recorded >= 4 => policy_ret.value = 32

(* ---- C14 ---- *)

\* C14: should_retry() returns true exactly when fewer than 5 attempts have
\* been recorded since the policy was created or last reset: true after 0..4
\* increments, false after the 5th and after every further increment, and
\* true again after reset().
C14_ShouldRetry ==
    policy_ret.op = "should_retry"
    => /\ policy_ret.value = (recorded < 5)
       /\ current_attempt = recorded

C14_Witness ==
    /\ policy_ret.op = "should_retry"
    /\ recorded > 5
    /\ policy_ret.value = FALSE

(* ================== App: live data and candle aggregation ============== *)

\* live_candles holds at most this many candles after a rollover
LiveCandlesCap ==
    60

\* live_trades holds at most this many trades
LiveTradesCap ==
    100

\* ws_error_log holds at most this many entries
ErrorLogCap ==
    10

\* the number of candles load_historical_candles asks for
HistoricalCount ==
    60

CandleIntervals ==
    {"OneMinute", "FiveMinutes", "FifteenMinutes", "ThirtyMinutes", "OneHour"}

\* CandleInterval::to_secs
to_secs(interval) ==
    CASE interval = "OneMinute" -> 60
      [] interval = "FiveMinutes" -> 300
      [] interval = "FifteenMinutes" -> 900
      [] interval = "ThirtyMinutes" -> 1800
      [] interval = "OneHour" -> 3600

\* fetch_historical_candles: seconds_per_candle of to_finnhub_resolution()
seconds_per_candle(interval) ==
    to_secs(interval)

Max(a, b) ==
    IF a >= b THEN a ELSE b

Candlestick(open, high, low, close, volume, timestamp, trade_count) ==
    [open |-> open, high |-> high, low |-> low, close |-> close,
     volume |-> volume, timestamp |-> timestamp, trade_count |-> trade_count]

Trade(price, timestamp, volume) ==
    [price |-> price, timestamp |-> timestamp, volume |-> volume]

\* volume.unwrap_or(0)
unwrap_or(o, d) ==
    IF IsSome(o) THEN Unwrap(o) ELSE d

\* the bucket key taken as the timestamp itself
bucket_start_Identity(timestamp, interval_secs) ==
    timestamp

\* timestamp / interval_secs * interval_secs in i64
bucket_start(timestamp, interval_secs) ==
    TruncDiv(timestamp, interval_secs) * interval_secs

\* the same-bucket update with the low left alone
update_candle_KeepLow(candle, price, volume) ==
    [candle EXCEPT !.high = Max(@, price),
                   !.close = price,
                   !.volume = @ + volume,
                   !.trade_count = @ + 1]

\* aggregate_into_candle, same bucket: the candle is updated in place
update_candle(candle, price, volume) ==
    [candle EXCEPT !.high = Max(@, price),
                   !.low = Min(@, price),
                   !.close = price,
                   !.volume = @ + volume,
                   !.trade_count = @ + 1]

\* the candle started with the tick's volume left out
new_candle_NoVolume(price, volume, timestamp) ==
    Candlestick(price, price, price, price, 0, timestamp, 1)

\* aggregate_into_candle: the candle started by a tick
new_candle(price, volume, timestamp) ==
    Candlestick(price, price, price, price, volume, timestamp, 1)

\* finalizing at the front of the history
push_finalized_Front(history, candle) ==
    LET pushed == <<candle>> \o history
    IN  IF Len(pushed) > LiveCandlesCap THEN Tail(pushed) ELSE pushed

\* aggregate_into_candle, new bucket: push_back, then one pop_front when the
\* history is longer than the cap
push_finalized(history, candle) ==
    LET pushed == Append(history, candle)
    IN  IF Len(pushed) > LiveCandlesCap THEN Tail(pushed) ELSE pushed

\* App::aggregate_into_candle: the candle and the history it leaves
aggregate_into_candle(cur, history, interval, price, volume, timestamp) ==
    LET interval_secs == to_secs(interval)
        candle_start == bucket_start(timestamp, interval_secs)
    IN  IF IsSome(cur)
        THEN LET candle == Unwrap(cur)
                 current_start == bucket_start(candle.timestamp, interval_secs)
             IN  IF candle_start = current_start
                 THEN [current_candle |-> Some(update_candle(candle, price, volume)),
                       live_candles |-> history]
                 ELSE [current_candle |-> Some(new_candle(price, volume, timestamp)),
                       live_candles |-> push_finalized(history, candle)]
        ELSE [current_candle |-> Some(new_candle(price, volume, timestamp)),
              live_candles |-> history]

\* Utc::now().format("%H:%M:%S") of the time at milliseconds since midnight
format_HMS(at) ==
    <<(at \div 3600000) % 24, (at \div 60000) % 60, (at \div 1000) % 60>>

\* format!("[{}] {}", timestamp, error)
error_entry(timestamp, error) ==
    [timestamp |-> timestamp, error |-> error]

\* the eviction taking the newest entry
evict_Newest(pushed) ==
    IF Len(pushed) > ErrorLogCap
    THEN SubSeq(pushed, 1, ErrorLogCap)
    ELSE pushed

\* add_error_to_log: keep only the last 10 errors
evict(pushed) ==
    IF Len(pushed) > ErrorLogCap THEN Tail(pushed) ELSE pushed

\* App::add_error_to_log at time at
add_error_to_log(log, at, error) ==
    evict(Append(log, error_entry(format_HMS(at), error)))

(* ------------------------------ the inputs ----------------------------- *)

\* trade prices
Prices ==
    {9, 10, 12}

\* trade volumes: absent or present
Volumes ==
    {None, Some(100)}

\* readings of Utc::now(), in seconds: 60 and 61 share a one-minute bucket,
\* 121 and 359 are each in another; 359 starts no bucket of any interval
Timestamps ==
    {60, 61, 121, 359}

\* the intervals the candles are built under
IntervalsUsed ==
    {"OneMinute", "FiveMinutes"}

\* row i of a Finnhub candle response, every field present
HistRow(i, interval) ==
    [o |-> Some(10), h |-> Some(12), l |-> Some(9), c |-> Some(11),
     v |-> Some(100), t |-> Some(i * seconds_per_candle(interval))]

\* a row whose volume is null
HistRowNoVolume(i, interval) ==
    [HistRow(i, interval) EXCEPT !.v = None]

HistRows(n, interval) ==
    [i \in 1..n |-> HistRow(i, interval)]

\* what the candle endpoint answers: a transport error, status "no_data",
\* or status "ok" with no row, with rows of which one has a null field, with
\* as many rows as were asked for, or with one more (both ends of the time
\* range from..now are bucket starts)
HistoricalResponses(interval) ==
    { [s |-> "error", rows |-> <<>>],
      [s |-> "no_data", rows |-> <<>>],
      [s |-> "ok", rows |-> <<>>],
      [s |-> "ok", rows |-> <<HistRow(1, interval), HistRowNoVolume(2, interval),
                              HistRow(3, interval)>>],
      [s |-> "ok", rows |-> HistRows(HistoricalCount, interval)],
      [s |-> "ok", rows |-> HistRows(HistoricalCount + 1, interval)] }

\* fetch_historical_candles: the candle of a row; the API gives no trade count
HistCandle(row) ==
    Candlestick(Unwrap(row.o), Unwrap(row.h), Unwrap(row.l), Unwrap(row.c),
                Unwrap(row.v), Unwrap(row.t), 0)

\* fetch_historical_candles: a row is kept when all six fields parse
RowParses(row) ==
    /\ IsSome(row.o)
    /\ IsSome(row.h)
    /\ IsSome(row.l)
    /\ IsSome(row.c)
    /\ IsSome(row.v)
    /\ IsSome(row.t)

\* fetch_historical_candles: the candles of the rows that parse, in order
RECURSIVE ParsedCandles(_)
ParsedCandles(rows) ==
    IF rows = <<>> THEN <<>>
    ELSE IF RowParses(Head(rows))
         THEN <<HistCandle(Head(rows))>> \o ParsedCandles(Tail(rows))
         ELSE ParsedCandles(Tail(rows))

\* fetch_historical_candles: Ok(candles) or Err
fetch_historical_candles(resp) ==
    IF resp.s = "ok" THEN Some(ParsedCandles(resp.rows)) ELSE None

(* ------------------------------ the actions ---------------------------- *)

\* App::new(), with the interval the caller has chosen
InitAgg ==
    /\ EngineIdle
    /\ current_attempt = 0
    /\ PolicyIdle
    /\ ThrottleIdle
    /\ AppIdle
    /\ current_candle = None
    /\ live_candles = <<>>
    /\ candle_interval \in IntervalsUsed
    /\ live_trades = <<>>
    /\ total_live_volume = 0
    /\ total_trade_count = 0
    /\ last_live_price = None
    /\ ws_last_update = None
    /\ ws_error_log = <<>>
    /\ ingests = 0
    /\ loads = 0
    /\ tick_interval = candle_interval

\* App::update_live_price(price, volume) when Utc::now() reads t seconds;
\* the header copy of the price in stock_data is left out
update_live_price(price, volume, t) ==
    /\ ingests' = ingests + 1
    /\ tick_interval' = candle_interval
    /\ last_live_price' = Some(price)
    /\ ws_last_update' = Some(t)
    /\ total_trade_count' = total_trade_count + 1
    /\ total_live_volume' = total_live_volume + unwrap_or(volume, 0)
    /\ live_trades' =
          LET pushed == <<Trade(price, t, volume)>> \o live_trades
          IN  IF Len(pushed) > LiveTradesCap
              THEN SubSeq(pushed, 1, Len(pushed) - 1)
              ELSE pushed
    /\ LET agg == aggregate_into_candle(current_candle, live_candles,
                      candle_interval, price, unwrap_or(volume, 0), t)
       IN  /\ current_candle' = agg.current_candle
           /\ live_candles' = agg.live_candles
    /\ UNCHANGED <<candle_interval, ws_error_log, loads>>

\* update_live_price called on its own
UpdateLivePrice(price, volume, t) ==
    /\ ingests < MaxIngests
    /\ update_live_price(price, volume, t)
    /\ UNCHANGED <<current_attempt, engineRest, policyVars, throttleVars,
                   appVars>>

\* App::clear_live_data
ClearLiveData ==
    /\ live_trades' = <<>>
    /\ live_candles' = <<>>
    /\ current_candle' = None
    /\ total_live_volume' = 0
    /\ total_trade_count' = 0
    /\ last_live_price' = None
    /\ UNCHANGED <<candle_interval, ws_last_update, ws_error_log, ingests,
                   loads, tick_interval>>
    /\ UNCHANGED <<current_attempt, engineRest, policyVars, throttleVars,
                   appVars>>

\* App::load_historical_candles, the endpoint answering resp
LoadHistoricalCandles(resp) ==
    /\ loads < MaxLoads
    /\ loads' = loads + 1
    /\ LET fetched == fetch_historical_candles(resp)
       IN  IF IsSome(fetched)
           THEN /\ live_candles' = Unwrap(fetched)
                /\ UNCHANGED <<ws_error_log, logged>>
           ELSE /\ ws_error_log' = add_error_to_log(ws_error_log, clock, resp.s)
                /\ logged' = logged + 1
                /\ UNCHANGED live_candles
    /\ UNCHANGED <<current_candle, candle_interval, live_trades,
                   total_live_volume, total_trade_count, last_live_price,
                   ws_last_update, ingests, tick_interval>>
    /\ UNCHANGED <<status_rx, ws_status, navVars, feedVars>>
    /\ UNCHANGED <<current_attempt, engineRest, policyVars, throttleVars>>

\* live ticks and clears, no historical load
NextAgg ==
    \/ \E price \in Prices, volume \in Volumes, t \in Timestamps :
          UpdateLivePrice(price, volume, t)
    \/ ClearLiveData

SpecAgg ==
    InitAgg /\ [][NextAgg]_vars

\* CandleInterval::next
next(interval) ==
    CASE interval = "OneMinute" -> "FiveMinutes"
      [] interval = "FiveMinutes" -> "FifteenMinutes"
      [] interval = "FifteenMinutes" -> "ThirtyMinutes"
      [] interval = "ThirtyMinutes" -> "OneHour"
      [] interval = "OneHour" -> "OneMinute"

\* CandleInterval::prev
prev(interval) ==
    CASE interval = "OneMinute" -> "OneHour"
      [] interval = "FiveMinutes" -> "OneMinute"
      [] interval = "FifteenMinutes" -> "FiveMinutes"
      [] interval = "ThirtyMinutes" -> "FifteenMinutes"
      [] interval = "OneHour" -> "ThirtyMinutes"

\* a caller of App assigns the public field candle_interval
SetCandleInterval(interval) ==
    /\ candle_interval' = interval
    /\ UNCHANGED <<current_candle, live_candles, live_trades,
                   total_live_volume, total_trade_count, last_live_price,
                   ws_last_update, ws_error_log, ingests, loads,
                   tick_interval>>
    /\ UNCHANGED <<current_attempt, engineRest, policyVars, throttleVars,
                   appVars>>

\* live ticks and clears, the interval being changed in between
NextInterval ==
    \/ \E price \in Prices, volume \in Volumes, t \in Timestamps :
          UpdateLivePrice(price, volume, t)
    \/ ClearLiveData
    \/ SetCandleInterval(next(candle_interval))
    \/ SetCandleInterval(prev(candle_interval))

SpecInterval ==
    InitAgg /\ [][NextInterval]_vars

\* live ticks, clears and historical loads
NextHist ==
    \/ \E price \in Prices, volume \in Volumes, t \in Timestamps :
          UpdateLivePrice(price, volume, t)
    \/ ClearLiveData
    \/ \E resp \in HistoricalResponses(candle_interval) :
          LoadHistoricalCandles(resp)

SpecHist ==
    InitAgg /\ [][NextHist]_vars

(* ===================== properties of the aggregation =================== *)

\* the bucket a clock reading falls in under the current interval
BucketKey(t) ==
    (t \div to_secs(candle_interval)) * to_secs(candle_interval)

\* the ticks taken since the aggregator was last empty, newest first
TickPrices ==
    {live_trades[i].price : i \in 1..Len(live_trades)}

RECURSIVE VolumeSum(_)
VolumeSum(trades) ==
    IF trades = <<>> THEN 0
    ELSE (IF Head(trades).volume = None THEN 0 ELSE Head(trades).volume[1])
         + VolumeSum(Tail(trades))

SameBucketTicks ==
    /\ live_trades # <<>>
    /\ \A i \in 1..Len(live_trades) :
          BucketKey(live_trades[i].timestamp) = BucketKey(live_trades[1].timestamp)

(* ---- C15 ---- *)

\* C15: when all the ticks ingested into an empty aggregator fall in one
\* bucket, the in-progress candle has open = first price, high = maximum
\* price, low = minimum price, close = last price, volume = sum of the tick
\* volumes and trade_count = number of ticks, and the history is empty.
C15_SameBucketCandle ==
    SameBucketTicks
    => /\ current_candle # None
       /\ current_candle[1].open = live_trades[Len(live_trades)].price
       /\ current_candle[1].close = live_trades[1].price
       /\ current_candle[1].high \in TickPrices
       /\ \A p \in TickPrices : p <= current_candle[1].high
       /\ current_candle[1].low \in TickPrices
       /\ \A p \in TickPrices : current_candle[1].low <= p
       /\ current_candle[1].volume = VolumeSum(live_trades)
       /\ current_candle[1].trade_count = Len(live_trades)
       /\ live_candles = <<>>

\* the ticks (10,100), (12,100), (9,100) of one bucket
C15_Witness ==
    /\ SameBucketTicks
    /\ candle_interval = "OneMinute"
    /\ Len(live_trades) = 3
    /\ live_trades[3].price = 10 /\ live_trades[3].volume = <<100>>
    /\ live_trades[2].price = 12 /\ live_trades[2].volume = <<100>>
    /\ live_trades[1].price = 9 /\ live_trades[1].volume = <<100>>
    /\ live_trades[3].timestamp = 60
    /\ current_candle = <<[open |-> 10, high |-> 12, low |-> 9, close |-> 9,
                           volume |-> 300, timestamp |-> 60, trade_count |-> 3]>>
    /\ live_candles = <<>>

(* ---- C16 ---- *)

\* C16: when a tick's bucket differs from the bucket of the current candle,
\* that one step appends the current candle unchanged as the newest element
\* of the history and makes a new candle, started from the tick and distinct
\* from the finalized one, the current candle.
C16_Rollover ==
    [][(/\ ingests' = ingests + 1
        /\ current_candle # None
        /\ BucketKey(live_trades'[1].timestamp)
              # BucketKey(current_candle[1].timestamp))
       => /\ live_candles' # <<>>
          /\ live_candles'[Len(live_candles')] = current_candle[1]
          /\ Len(live_candles) < 60 => live_candles' = live_candles \o current_candle
          /\ current_candle' # None
          /\ current_candle' # current_candle
          /\ current_candle'[1].open = live_trades'[1].price
          /\ current_candle'[1].close = live_trades'[1].price
          /\ current_candle'[1].timestamp = live_trades'[1].timestamp
          /\ current_candle'[1].trade_count = 1]_vars

\* two rollovers have happened: t0, t0 + 61s, and a third bucket
C16_Witness ==
    /\ candle_interval = "OneMinute"
    /\ Len(live_candles) = 2
    /\ live_candles[1].timestamp = 60
    /\ live_candles[2].timestamp = 121
    /\ current_candle # None
    /\ current_candle[1].timestamp = 359

(* ---- C17 ---- *)

\* C17: after any sequence of live ticks, clear_live_data and
\* load_historical_candles the history holds at most 60 candles.
C17_HistoryBounded ==
    Len(live_candles) <= 60

(* ---- C18 ---- *)

OhlcOrdered(c) ==
    /\ c.low <= c.open
    /\ c.open <= c.high
    /\ c.low <= c.close
    /\ c.close <= c.high

\* C18: after every ingest the in-progress candle and every candle the
\* aggregator has finalized satisfy low <= open <= high and
\* low <= close <= high.
C18_OhlcOrdered ==
    /\ current_candle # None => OhlcOrdered(current_candle[1])
    /\ \A i \in 1..Len(live_candles) : OhlcOrdered(live_candles[i])

\* a finalized candle built from two ticks of different prices, and an
\* in-progress candle after it
C18_Witness ==
    /\ live_candles # <<>>
    /\ live_candles[1].trade_count = 2
    /\ live_candles[1].low < live_candles[1].high
    /\ live_candles[1].close = live_candles[1].low
    /\ current_candle # None

(* ---- C19 ---- *)

\* C19: after any sequence of live ticks, clear_live_data and
\* load_historical_candles, the in-progress candle and every candle of the
\* history have trade_count >= 1.
C19_TradeCountPositive ==
    /\ current_candle # None => current_candle[1].trade_count >= 1
    /\ \A i \in 1..Len(live_candles) : live_candles[i].trade_count >= 1

(* ============================ UpdateThrottle =========================== *)

\* the intervals a throttle is created with, in milliseconds: the one App::new
\* uses and a longer one
MinIntervals ==
    {100, 500}

\* the comparison with the boundary left out
interval_elapsed_Strict(at, last, interval) ==
    at - last > interval

\* should_update: enough time has passed since last_update
interval_elapsed(at, last, interval) ==
    at - last >= interval

\* UpdateThrottle::new(min_interval) at clock 0: last_update is Instant::now()
InitThrottle ==
    /\ EngineIdle
    /\ current_attempt = 0
    /\ PolicyIdle
    /\ AggIdle
    /\ AppIdle
    /\ clock = 0
    /\ last_update = clock
    /\ min_interval \in MinIntervals
    /\ calls = <<>>

\* 100ms pass
ThrottleTick ==
    /\ clock < MaxClockTicks * 100
    /\ clock' = clock + 100
    /\ UNCHANGED <<last_update, min_interval, calls>>
    /\ UNCHANGED <<current_attempt, engineRest, policyVars, aggVars,
                   appVars>>

\* UpdateThrottle::should_update
ShouldUpdate ==
    /\ Len(calls) < MaxCalls
    /\ IF interval_elapsed(clock, last_update, min_interval)
       THEN /\ last_update' = clock
            /\ calls' = Append(calls, [at |-> clock, result |-> TRUE])
       ELSE /\ UNCHANGED last_update
            /\ calls' = Append(calls, [at |-> clock, result |-> FALSE])
    /\ UNCHANGED <<min_interval, clock>>
    /\ UNCHANGED <<current_attempt, engineRest, policyVars, aggVars,
                   appVars>>

NextThrottle ==
    \/ ThrottleTick
    \/ ShouldUpdate

SpecThrottle ==
    InitThrottle /\ [][NextThrottle]_vars

(* ---- C20 ---- *)

\* C20: for a newly created throttle with min_interval = 500ms, the first
\* two should_update() calls, made less than 500ms apart, return true then
\* false, and a call made more than 500ms after the latest true result
\* returns true.
C20_TrueThenFalse ==
    min_interval = 500
    => /\ (Len(calls) >= 2 /\ calls[2].at - calls[1].at < 500)
          => (calls[1].result /\ ~calls[2].result)
       /\ \A i, j \in 1..Len(calls) :
             (/\ i < j
              /\ calls[i].result
              /\ \A k \in (i + 1)..(j - 1) : ~calls[k].result
              /\ calls[j].at - calls[i].at > 500)
             => calls[j].result

(* ---- C21 ---- *)

\* the calls of a log that returned true
TrueCalls(log) ==
    {i \in 1..Len(log) : log[i].result}

\* C21: should_update() returns true, and sets last_update to the current
\* time, if and only if the time elapsed since last_update is >=
\* min_interval; when it returns false last_update and min_interval are
\* unchanged, so any two calls that return true are at least min_interval
\* apart.
C21_ShouldUpdate ==
    [][calls' # calls
       => LET r == calls'[Len(calls')]
          IN  /\ r.at = clock
              /\ r.result <=> (clock - last_update >= min_interval)
              /\ r.result => last_update' = clock
              /\ ~r.result => last_update' = last_update
              /\ min_interval' = min_interval
              /\ \A i, j \in TrueCalls(calls') :
                    i < j => calls'[j].at - calls'[i].at >= min_interval]_vars

\* a true result exactly min_interval after the previous one, with a false
\* result in between
C21_Witness ==
    /\ min_interval = 500
    /\ Len(calls) = 3
    /\ calls[1].result /\ ~calls[2].result /\ calls[3].result
    /\ calls[3].at - calls[1].at = min_interval
    /\ last_update = calls[3].at

(* ================== further properties of the engine =================== *)

(* ---- C22 ---- *)

C22EventA ==
    [price |-> 10, timestamp |-> 60, volume |-> <<100>>]

C22EventB ==
    [price |-> 12, timestamp |-> 61, volume |-> <<>>]

\* the PriceEvents a frame is to yield: one per data element with a price
\* and a timestamp, in array order, seconds = milliseconds divided by 1000
C22Events(f) ==
    IF f = TextFrame(TRUE, "trade", <<(<<TradeA>>)>>) THEN <<C22EventA>>
    ELSE IF f = TextFrame(TRUE, "trade", <<(<<TradeA, TradeB>>)>>)
    THEN <<C22EventA, C22EventB>>
    ELSE <<>>

\* C22: the price sink only grows at its end, and only when a frame is read:
\* the frame's PriceEvents (one per data element that has a price and a
\* timestamp, in array order, timestamp in whole seconds) are appended after
\* those of all earlier frames, nothing is duplicated or reordered.
C22_PriceOrder ==
    [][/\ priceLog' # priceLog => framesRead' = framesRead + 1
       /\ (framesRead' = framesRead + 1 /\ rxOpen)
          => /\ msg_in' # None
             /\ priceLog' = priceLog \o C22Events(msg_in'[1])]_vars

\* a batched frame and then a single-trade frame have been delivered
C22_Witness ==
    /\ framesRead = 2
    /\ msg_in = <<TextFrame(TRUE, "trade", <<(<<TradeA>>)>>)>>
    /\ priceLog = <<C22EventA, C22EventB, C22EventA>>

(* ---- C23 ---- *)

\* C23: the status stream only grows at its end, and every Connected event
\* in it is immediately preceded by a Connecting event.
C23_ConnectingBeforeConnected ==
    [][/\ IsPrefix(statusLog, statusLog')
       /\ \A i \in 1..Len(statusLog') :
             statusLog'[i].tag = "Connected"
             => /\ i > 1
                /\ statusLog'[i - 1].tag = "Connecting"]_vars

\* a connection established at the second attempt
C23_Witness ==
    /\ Len(statusLog) >= 4
    /\ statusLog[2].tag = "Reconnecting"
    /\ statusLog[3].tag = "Connecting"
    /\ statusLog[4].tag = "Connected"

(* ---- C26 ---- *)

\* C26: from the moment a connection is established until its session has
\* ended, the attempt counter is 0, and a Reconnecting event that directly
\* follows a Connected event has attempt = 1.
C26_ResetOnConnect ==
    /\ pc \in {"subscribe", "recv", "select", "session_end", "disconnecting"}
          => current_attempt = 0
    /\ \A i \in 2..Len(statusLog) :
          (statusLog[i].tag = "Reconnecting" /\ statusLog[i - 1].tag = "Connected")
          => statusLog[i].attempt = 1

\* a failed attempt, then a session that was connected and dropped
C26_Witness ==
    /\ Len(statusLog) = 5
    /\ statusLog[2].tag = "Reconnecting"
    /\ statusLog[4].tag = "Connected"
    /\ statusLog[5].tag = "Reconnecting"
    /\ statusLog[5].attempt = 1

(* ---- C27 ---- *)

\* C27: when the engine is at the top of its reconnection loop with the stop
\* flag set, its next step emits Disconnected and returns: no Connecting is
\* emitted and no connection is attempted.
C27_StopAtLoopTop ==
    [][(pc = "loop_top" /\ should_stop)
          => /\ pc' = "done"
             /\ statusLog' = Append(statusLog, StDisconnected)
             /\ connects' = connects]_vars

\* stopped at the loop top after a backoff sleep
C27_Witness ==
    /\ pc = "done"
    /\ Len(statusLog) = 3
    /\ statusLog[2].tag = "Reconnecting"
    /\ statusLog[3] = StDisconnected
    /\ wsOut = <<>>

(* ---- C28 ---- *)

\* C28: when a session that reached the receive loop has ended and the stop
\* flag is set, the engine's next steps are the unsubscribe write and then
\* Disconnected and the return, whatever the session outcome was: no Error
\* and no Reconnecting is emitted and no failure is classified.
C28_StopBeforeClassification ==
    [][/\ (pc = "session_end" /\ should_stop)
          => /\ pc' = "disconnecting"
             /\ statusLog' = statusLog
             /\ current_attempt' = current_attempt
       /\ pc = "disconnecting"
          => /\ pc' = "done"
             /\ statusLog' = Append(statusLog, StDisconnected)
             /\ current_attempt' = current_attempt
             /\ connects' = connects]_vars

\* the session ended with an error that would be classified fatal
C28_Witness ==
    /\ pc = "disconnecting"
    /\ should_stop
    /\ connection_result = Some(CrError(PrefixWebSocketError \o ErrUnauthorized))

(* ---- C29 ---- *)

RECURSIVE LastNonPong(_)
LastNonPong(out) ==
    IF out = <<>> THEN "none"
    ELSE IF out[Len(out)] # "pong" THEN out[Len(out)]
    ELSE LastNonPong(SubSeq(out, 1, Len(out) - 1))

\* C29: a subscribe frame is written only right after Connected was emitted,
\* once, and it is the last frame written (pongs aside) whenever the receive
\* loop runs; an unsubscribe frame is written exactly in the step in which a
\* session that reached the receive loop is found ended with the stop flag
\* set, and the next step emits Disconnected without writing again.
C29_SubscribeUnsubscribe ==
    [][/\ (wsOut' # wsOut /\ Last(wsOut') = "subscribe")
          => /\ pc = "subscribe"
             /\ pc' = "recv"
             /\ Last(statusLog).tag = "Connected"
             /\ wsOut' = Append(wsOut, "subscribe")
       /\ pc' \in {"recv", "select"} => LastNonPong(wsOut') = "subscribe"
       /\ (wsOut' # wsOut /\ Last(wsOut') = "unsubscribe")
          <=> (pc = "session_end" /\ pc' # "session_end" /\ should_stop)
       /\ (wsOut' # wsOut /\ Last(wsOut') = "unsubscribe")
          => /\ wsOut' = Append(wsOut, "unsubscribe")
             /\ statusLog' = statusLog
       /\ pc = "disconnecting"
          => /\ wsOut' = wsOut
             /\ statusLog' = Append(statusLog, StDisconnected)]_vars

C29_Witness ==
    /\ pc = "done"
    /\ wsOut = <<"subscribe", "pong", "unsubscribe">>
    /\ Last(statusLog) = StDisconnected

(* ---- C30 ---- *)

\* frames that are not trade frames: a text that is not JSON, a JSON text of
\* another type, a trade text whose data is not an array, a binary frame
MalformedFrames ==
    { TextFrame(FALSE, "", <<>>),
      TextFrame(TRUE, "news", <<(<<TradeA>>)>>),
      TextFrame(TRUE, "trade", <<>>),
      ControlFrame("Binary") }

\* C30: reading a malformed or unrecognized frame pushes no PriceEvent, emits
\* no status event, writes nothing and leaves the engine in the receive loop
\* of the same session.
C30_MalformedIgnored ==
    [][(framesRead' = framesRead + 1 /\ msg_in' # None /\ msg_in'[1] \in MalformedFrames)
          => /\ priceLog' = priceLog
             /\ statusLog' = statusLog
             /\ wsOut' = wsOut
             /\ connection_result' = connection_result
             /\ pc' = "recv"]_vars

\* after a frame that yielded nothing, a trade frame of the same session is
\* delivered
C30_Witness ==
    /\ sessions = 1
    /\ framesRead = 2
    /\ wsOut = <<"subscribe">>
    /\ msg_in = <<TextFrame(TRUE, "trade", <<(<<TradeA>>)>>)>>
    /\ priceLog = <<C22EventA>>

(* ====================== run_app: the status channel ==================== *)

\* what an engine sends on status_tx: a progress event and a failure
SentStatuses ==
    {StConnecting, StError(MsgSubscriptionFailed, TRUE)}

\* the Error events of a sequence of status events
Errors(statuses) ==
    SelectSeq(statuses, LAMBDA st : st.tag = "Error")

\* the log after run_app has taken statuses from the channel at time at
RECURSIVE drain_log(_, _, _)
drain_log(log, at, statuses) ==
    IF statuses = <<>>
    THEN log
    ELSE LET status == Head(statuses)
         IN  drain_log(IF status.tag = "Error"
                       THEN add_error_to_log(log, at, status.message)
                       ELSE log,
                       at, Tail(statuses))

InitLog ==
    /\ EngineIdle
    /\ current_attempt = 0
    /\ PolicyIdle
    /\ AggIdle
    /\ ThrottleIdle
    /\ AppIdle

\* an engine task sends a status event
StatusSend(status) ==
    /\ Len(status_rx) < MaxPending
    /\ status.tag = "Error" => logged + Len(Errors(status_rx)) < MaxLogged
    /\ status_rx' = Append(status_rx, status)
    /\ UNCHANGED <<ws_status, logged, navVars, feedVars>>
    /\ UNCHANGED <<current_attempt, engineRest, policyVars, aggVars,
                   throttleVars>>

\* run_app: while let Ok(status) = status_rx.try_recv()
DrainStatus ==
    /\ status_rx # <<>>
    /\ ws_error_log' = drain_log(ws_error_log, clock, status_rx)
    /\ logged' = logged + Len(Errors(status_rx))
    /\ ws_status' = Last(status_rx)
    /\ status_rx' = <<>>
    /\ UNCHANGED <<current_candle, live_candles, candle_interval, live_trades,
                   total_live_volume, total_trade_count, last_live_price,
                   ws_last_update, ingests, loads, tick_interval>>
    /\ UNCHANGED <<navVars, feedVars>>
    /\ UNCHANGED <<current_attempt, engineRest, policyVars, throttleVars>>

NextLog ==
    \/ \E status \in SentStatuses : StatusSend(status)
    \/ DrainStatus
    \/ ThrottleTick

SpecLog ==
    InitLog /\ [][NextLog]_vars

(* ---- C25 ---- *)

\* the entries run_app is to append for the Error events it takes at time at
C25Entries(statuses, at) ==
    [i \in 1..Len(Errors(statuses)) |->
        [timestamp |-> <<0, 0, at \div 1000>>,
         error |-> Errors(statuses)[i].message]]

\* the last n entries of a log
KeepLast(log, n) ==
    IF Len(log) <= n THEN log ELSE SubSeq(log, Len(log) - n + 1, Len(log))

\* C25: the error log never holds more than 10 entries; adding an entry to
\* a full log removes the oldest and keeps the others in insertion order;
\* every Error status event taken from the status channel is appended with
\* the time it was taken at.
C25_ErrorLogBounded ==
    [][/\ Len(ws_error_log') <= 10
       /\ status_rx' = status_rx => ws_error_log' = ws_error_log
       /\ status_rx' # status_rx /\ status_rx' = <<>>
          => LET entries == C25Entries(status_rx, clock)
             IN  /\ ws_error_log' = KeepLast(ws_error_log \o entries, 10)
                 /\ (Len(ws_error_log) = 10 /\ Len(entries) = 1)
                    => ws_error_log' = Append(Tail(ws_error_log), entries[1])]_vars

\* an eleventh error has been logged: the log is full, its newest entry is
\* later than its oldest
C25_Witness ==
    /\ logged = 11
    /\ Len(ws_error_log) = 10
    /\ ws_error_log[1].timestamp = <<0, 0, 0>>
    /\ ws_error_log[10].timestamp = <<0, 0, 1>>
    /\ ws_status.tag = "Error"
    /\ status_rx = <<>>

(* ================= run_app: the keys and the engine tasks ============== *)

\* char::to_uppercase of an ASCII character
ToUpperChar(c) ==
    IF \E i \in 1..Len(LowerChars) : LowerChars[i] = c
    THEN UpperChars[CHOOSE i \in 1..Len(LowerChars) : LowerChars[i] = c]
    ELSE c

\* str::to_uppercase
to_uppercase(s) ==
    [i \in 1..Len(s) |-> ToUpperChar(s[i])]

\* App::new: the symbols of popular_stocks
popular_stocks ==
    << <<"^","G","S","P","C">>, <<"^","D","J","I">>, <<"^","I","X","I","C">>,
       <<"S","P","Y">>, <<"Q","Q","Q">>, <<"A","A","P","L">>,
       <<"M","S","F","T">>, <<"G","O","O","G","L">>, <<"A","M","Z","N">>,
       <<"T","S","L","A">>, <<"N","V","D","A">>, <<"M","E","T","A">> >>

\* the text of a failed fetch
PrefixErrorFetching ==
    <<"E","r","r","o","r"," ","f","e","t","c","h","i","n","g"," ">>

\* KeyCode::Char(c)
KeyChar(c) ==
    [code |-> "Char", c |-> c]

\* the other key codes
KeyCode(code) ==
    [code |-> code, c |-> ""]

\* the keys pressed: the letters handle_input knows, a caret, and the
\* special keys
Keys ==
    {KeyChar(c) : c \in {"q", "s", "b", "e", "l", "r", "^"}}
    \cup {KeyCode(code) : code \in {"Enter", "Esc", "Backspace", "Up", "Down",
                                    "Left", "Right"}}

\* the App and run_app's task handle as handle_input sees them
AppNow ==
    [state |-> app_state,
     input_mode |-> input_mode,
     input_buffer |-> input_buffer,
     symbol |-> symbol,
     selected |-> selected,
     stock_data |-> stock_data,
     show_error_log |-> show_error_log,
     live_updates_enabled |-> live_updates_enabled,
     ws_status |-> ws_status,
     ws_error_log |-> ws_error_log,
     logged |-> logged,
     ws_should_stop |-> should_stop,
     ws_task_handle |-> ws_task_handle,
     tasks |-> tasks,
     ret |-> FALSE]

\* should_auto_start_live_mode: not for indices
should_auto_start_live_mode(sym) ==
    ~(Len(sym) > 0 /\ sym[1] = "^")

\* JoinHandle::abort on task i; a task that has returned stays as it is
abort(ts, i) ==
    [ts EXCEPT ![i].state = IF @ = "running" THEN "aborted" ELSE @]

\* stop_websocket with the abort left out
stop_websocket_NoAbort(a, returns) ==
    [a EXCEPT !.ws_should_stop = TRUE,
              !.ws_task_handle = None]

\* stop_websocket: the flag is set, 100ms pass, in which the task returns
\* or not, and the task held is aborted
stop_websocket(a, returns) ==
    LET slept == IF IsSome(a.ws_task_handle) /\ returns
                 THEN [a.tasks EXCEPT ![Unwrap(a.ws_task_handle)].state =
                                          IF @ = "running" THEN "returned" ELSE @]
                 ELSE a.tasks
    IN  [a EXCEPT !.ws_should_stop = TRUE,
                  !.tasks = IF IsSome(a.ws_task_handle)
                            THEN abort(slept, Unwrap(a.ws_task_handle))
                            ELSE slept,
                  !.ws_task_handle = None]

\* App::fetch_data, the endpoint answering or not
fetch_data(a, ok) ==
    IF ok
    THEN [a EXCEPT !.stock_data = Some(a.symbol),
                   !.state = "Chart"]
    ELSE [a EXCEPT !.ws_error_log =
                       add_error_to_log(@, clock,
                           PrefixErrorFetching \o a.symbol \o <<":", " ">>
                               \o ErrConnectionReset),
                   !.logged = @ + 1,
                   !.state = "Chart"]

\* App::select_popular
select_popular(a, ok) ==
    fetch_data([a EXCEPT !.symbol = popular_stocks[a.selected + 1]], ok)

\* App::next_popular
next_popular(a) ==
    [a EXCEPT !.selected = IF @ >= Len(popular_stocks) - 1 THEN 0 ELSE @ + 1]

\* App::previous_popular
previous_popular(a) ==
    [a EXCEPT !.selected = IF @ = 0 THEN Len(popular_stocks) - 1 ELSE @ - 1]

\* tokio::spawn(start_websocket(symbol, ..., should_stop)) into the handle
spawn_start_websocket(a) ==
    [a EXCEPT !.tasks = Append(@, [symbol |-> a.symbol,
                                   state |-> "running",
                                   stop_at_start |-> a.ws_should_stop]),
              !.ws_task_handle = Some(Len(a.tasks) + 1)]

\* the start with the flag left as stop_websocket set it
start_live_KeepFlag(a) ==
    spawn_start_websocket(a)

\* the flag is cleared and the engine task spawned
start_live(a) ==
    spawn_start_websocket([a EXCEPT !.ws_should_stop = FALSE])

\* handle_input, AppState::Landing with input_mode
handle_landing_input(a, key, ok, returns) ==
    IF key = KeyChar("q") /\ a.input_buffer = <<>>
    THEN [a EXCEPT !.ret = TRUE]
    ELSE IF key.code = "Enter"
    THEN IF a.input_buffer # <<>>
         THEN LET typed == [a EXCEPT !.symbol = to_uppercase(a.input_buffer),
                                     !.input_buffer = <<>>,
                                     !.input_mode = FALSE]
                  fetched == fetch_data(stop_websocket(typed, returns), ok)
              IN  IF should_auto_start_live_mode(fetched.symbol)
                  THEN start_live([fetched EXCEPT !.live_updates_enabled = TRUE])
                  ELSE fetched
         ELSE a
    ELSE IF key.code = "Esc"
    THEN [a EXCEPT !.input_buffer = <<>>, !.input_mode = FALSE]
    ELSE IF key.code = "Backspace"
    THEN [a EXCEPT !.input_buffer =
                       IF @ = <<>> THEN @ ELSE SubSeq(@, 1, Len(@) - 1)]
    ELSE IF key.code = "Char"
    THEN [a EXCEPT !.input_buffer = Append(@, key.c)]
    ELSE a

\* handle_input, AppState::Landing without input_mode
handle_landing(a, key, ok, returns) ==
    IF key = KeyChar("q")
    THEN [a EXCEPT !.ret = TRUE]
    ELSE IF key = KeyChar("s")
    THEN [a EXCEPT !.input_mode = TRUE]
    ELSE IF key.code = "Up"
    THEN previous_popular(a)
    ELSE IF key.code = "Down"
    THEN next_popular(a)
    ELSE IF key.code = "Enter"
    THEN LET fetched == select_popular(stop_websocket(a, returns), ok)
         IN  IF should_auto_start_live_mode(fetched.symbol)
             THEN start_live([fetched EXCEPT !.live_updates_enabled = TRUE])
             ELSE fetched
    ELSE a

\* handle_input, AppState::Chart: 'r', Left and Right
refresh(a, ok, returns) ==
    LET was_live == a.live_updates_enabled
        fetched == fetch_data(stop_websocket(a, returns), ok)
    IN  IF was_live THEN start_live(fetched) ELSE fetched

\* handle_input, AppState::Chart
handle_chart(a, key, ok, returns) ==
    IF a.show_error_log
    THEN IF key.code = "Esc" THEN [a EXCEPT !.show_error_log = FALSE] ELSE a
    ELSE IF key = KeyChar("q")
    THEN [a EXCEPT !.ret = TRUE]
    ELSE IF key = KeyChar("b")
    THEN stop_websocket([a EXCEPT !.state = "Landing",
                                  !.stock_data = None,
                                  !.live_updates_enabled = FALSE], returns)
    ELSE IF key = KeyChar("s")
    THEN [a EXCEPT !.state = "Landing", !.input_mode = TRUE]
    ELSE IF key = KeyChar("e")
    THEN [a EXCEPT !.show_error_log = ~@]
    ELSE IF key = KeyChar("l")
    THEN IF ~a.live_updates_enabled
         THEN start_live(stop_websocket(
                  [a EXCEPT !.live_updates_enabled = TRUE], returns))
         ELSE [stop_websocket([a EXCEPT !.live_updates_enabled = FALSE],
                              returns)
                  EXCEPT !.ws_status = [tag |-> "Idle"]]
    ELSE IF key = KeyChar("r") \/ key.code \in {"Left", "Right"}
    THEN refresh(a, ok, returns)
    ELSE a

\* handle_input
handle_input(a, key, ok, returns) ==
    IF a.state = "Landing"
    THEN IF a.input_mode
         THEN handle_landing_input(a, key, ok, returns)
         ELSE handle_landing(a, key, ok, returns)
    ELSE handle_chart(a, key, ok, returns)

\* run_app's key step: handle_input, and stop_websocket before quitting
run_app_key(a, key, ok, returns) ==
    LET handled == handle_input(a, key, ok, returns)
    IN  IF handled.ret THEN stop_websocket(handled, returns) ELSE handled

InitApp ==
    /\ EngineIdle
    /\ current_attempt = 0
    /\ PolicyIdle
    /\ AggIdle
    /\ ThrottleIdle
    /\ AppIdle

\* a key is read and handled; the fetch it may make succeeds or fails, and
\* the engine task it may stop returns during the 100ms or not
HandleKey(key, ok, returns) ==
    /\ ~quit
    /\ keys < MaxKeys
    /\ keys' = keys + 1
    /\ LET a == run_app_key(AppNow, key, ok, returns)
       IN  /\ app_state' = a.state
           /\ input_mode' = a.input_mode
           /\ input_buffer' = a.input_buffer
           /\ symbol' = a.symbol
           /\ selected' = a.selected
           /\ stock_data' = a.stock_data
           /\ show_error_log' = a.show_error_log
           /\ live_updates_enabled' = a.live_updates_enabled
           /\ ws_status' = a.ws_status
           /\ ws_error_log' = a.ws_error_log
           /\ logged' = a.logged
           /\ should_stop' = a.ws_should_stop
           /\ ws_task_handle' = a.ws_task_handle
           /\ tasks' = a.tasks
           /\ quit' = a.ret
    /\ UNCHANGED <<status_rx, feedVars>>
    /\ UNCHANGED <<current_candle, live_candles, candle_interval, live_trades,
                   total_live_volume, total_trade_count, last_live_price,
                   ws_last_update, ingests, loads, tick_interval>>
    /\ UNCHANGED <<env_key, api_key, mgr_status, pc, current_attempt,
                   connection_result, statusLog, priceLog, wsOut, rxOpen,
                   sleepLeft, now, connects, sessions, framesRead, msg_in,
                   endCause>>
    /\ UNCHANGED <<policyVars, throttleVars>>

\* the engine of task i returns by itself: a fatal error, the retries used
\* up, or the stop flag seen
TaskReturns(i) ==
    /\ ~quit
    /\ i \in 1..Len(tasks)
    /\ tasks[i].state = "running"
    /\ tasks' = [tasks EXCEPT ![i].state = "returned"]
    /\ UNCHANGED <<status_rx, ws_status, logged, app_state, input_mode,
                   input_buffer, symbol, selected, stock_data, show_error_log,
                   live_updates_enabled, ws_task_handle, keys, quit, feedVars>>
    /\ UNCHANGED <<current_attempt, engineRest, policyVars, aggVars,
                   throttleVars>>

NextApp ==
    \/ \E key \in Keys, ok \in BOOLEAN, returns \in BOOLEAN :
          HandleKey(key, ok, returns)
    \/ \E i \in 1..Len(tasks) : TaskReturns(i)

SpecApp ==
    InitApp /\ [][NextApp]_vars

(* ---- C24 ---- *)

\* the engine tasks that are live
LiveTasks(ts) ==
    {i \in 1..Len(ts) : ts[i].state = "running"}

\* C24: at most one engine task is live at a time; when handle_input spawns
\* an engine no earlier task is live any more (stop_websocket has set the
\* flag and aborted the task held), the new task is the one held, and the
\* stop flag is false when it is started.
C24_OneLiveEngine ==
    [][/\ Cardinality(LiveTasks(tasks')) <= 1
       /\ Len(tasks') > Len(tasks)
          => /\ Len(tasks') = Len(tasks) + 1
             /\ \A i \in 1..Len(tasks) : tasks'[i].state # "running"
             /\ tasks'[Len(tasks')].state = "running"
             /\ ~tasks'[Len(tasks')].stop_at_start
             /\ ~should_stop'
             /\ ws_task_handle' = Some(Len(tasks'))]_vars

\* a second engine has been started while the first was still running: the
\* first was aborted, the second is live
C24_Witness ==
    /\ Len(tasks) = 2
    /\ tasks[1].state = "aborted"
    /\ tasks[2].state = "running"
    /\ tasks[1].symbol # tasks[2].symbol
    /\ ws_task_handle = Some(2)
    /\ ~should_stop

(* ===================== run_app: the price channel ====================== *)

\* the times of day, in milliseconds, at which run_app starts: shortly
\* before a minute ends
FeedStarts ==
    {59800}

\* the keys pressed while prices arrive: select, back, previous symbol,
\* live updates on and off
FeedKeys ==
    {KeyCode("Enter"), KeyCode("Up"), KeyChar("b"), KeyChar("l")}

\* the trades the engines pass on
FeedTrades ==
    {TradeA, TradeB}

\* the LivePrice the engine of sym builds from a data element
LivePrice(sym, trade) ==
    [symbol |-> sym,
     price |-> live_price(trade).price,
     timestamp |-> live_price(trade).timestamp,
     volume |-> live_price(trade).volume]

\* Utc::now().timestamp() at the clock's time
utc_now ==
    clock \div 1000

InitFeed ==
    /\ EngineIdle
    /\ current_attempt = 0
    /\ PolicyIdle
    /\ AggIdle
    /\ AppIdle
    /\ clock \in FeedStarts
    /\ last_update = clock
    /\ min_interval = 100
    /\ calls = <<>>

\* the engine of task i, running, sends the LivePrice of a trade
EngineSends(i, trade) ==
    /\ ~quit
    /\ i \in 1..Len(tasks)
    /\ tasks[i].state = "running"
    /\ Len(rx) < MaxPending
    /\ rx' = Append(rx, LivePrice(tasks[i].symbol, trade))
    /\ UNCHANGED <<last_taken, status_rx, ws_status, logged, navVars>>
    /\ UNCHANGED <<current_attempt, engineRest, policyVars, aggVars,
                   throttleVars>>

\* run_app: if let Ok(live_price) = rx.try_recv(), with a LivePrice waiting.
\* should_update is called only with live updates enabled; the call of
\* update_live_price passes the price and, of the volume, either the event's
\* or none; the time is the consumer's
PriceStep(with_volume) ==
    /\ ~quit
    /\ rx # <<>>
    /\ live_updates_enabled => Len(calls) < MaxCalls
    /\ rx' = Tail(rx)
    /\ IF live_updates_enabled
       THEN /\ calls' = Append(calls,
                   [at |-> clock,
                    result |-> interval_elapsed(clock, last_update,
                                                min_interval)])
            /\ IF interval_elapsed(clock, last_update, min_interval)
               THEN /\ last_update' = clock
                    /\ update_live_price(
                           Head(rx).price,
                           IF with_volume THEN Head(rx).volume ELSE None,
                           utc_now)
                    /\ last_taken' = Some(Head(rx))
               ELSE /\ UNCHANGED <<last_update, last_taken>>
                    /\ UNCHANGED aggVars
       ELSE /\ UNCHANGED <<last_update, calls, last_taken>>
            /\ UNCHANGED aggVars
    /\ UNCHANGED <<min_interval, clock>>
    /\ UNCHANGED <<status_rx, ws_status, logged, navVars>>
    /\ UNCHANGED <<current_attempt, engineRest, policyVars>>

\* event::poll(100ms) times out
PollTimeout ==
    /\ ~quit
    /\ \E start \in FeedStarts : clock < start + MaxPolls * 100
    /\ clock' = clock + 100
    /\ UNCHANGED <<last_update, min_interval, calls>>
    /\ UNCHANGED <<current_attempt, engineRest, policyVars, aggVars,
                   appVars>>

\* the fetches the keys make succeed
NextFeed ==
    \/ \E key \in FeedKeys, returns \in BOOLEAN :
          HandleKey(key, TRUE, returns)
    \/ \E i \in 1..Len(tasks), trade \in FeedTrades : EngineSends(i, trade)
    \/ \E with_volume \in BOOLEAN : PriceStep(with_volume)
    \/ PollTimeout

SpecFeed ==
    InitFeed /\ [][NextFeed]_vars

(* ================ further properties of the aggregation ================ *)

\* an update_live_price call has just been made
Ingested ==
    ingests' = ingests + 1

\* that call started a candle: the aggregator was empty or the tick's bucket
\* is not the current candle's
StartsCandle ==
    /\ Ingested
    /\ \/ current_candle = None
       \/ BucketKey(live_trades'[1].timestamp)
             # BucketKey(current_candle[1].timestamp)

(* ---- C31 ---- *)

\* C31: a newly started candle (first tick of an empty aggregator, or the
\* tick that triggers a rollover) has open = high = low = close = the tick
\* price, volume = the tick volume, trade_count = 1, and its stored bucket
\* start equals the tick's bucket key floor(t / I) * I.
C31_NewCandle ==
    [][StartsCandle
       => LET tick == live_trades'[1]
          IN  /\ current_candle' # None
              /\ current_candle'[1].open = tick.price
              /\ current_candle'[1].high = tick.price
              /\ current_candle'[1].low = tick.price
              /\ current_candle'[1].close = tick.price
              /\ current_candle'[1].volume = VolumeSum(<<tick>>)
              /\ current_candle'[1].trade_count = 1
              /\ current_candle'[1].timestamp = BucketKey(tick.timestamp)]_vars

(* ---- C34 ---- *)

\* C34: a tick whose bucket key is earlier than the current candle's
\* finalizes the current candle into history and starts a new current
\* candle for the earlier bucket; no candle already in history is modified.
C34_OutOfOrderTick ==
    [][(/\ Ingested
        /\ current_candle # None
        /\ BucketKey(live_trades'[1].timestamp)
              < BucketKey(current_candle[1].timestamp))
       => /\ Len(live_candles) < 60
             => live_candles' = Append(live_candles, current_candle[1])
          /\ current_candle' # None
          /\ current_candle'[1].trade_count = 1
          /\ current_candle'[1].open = live_trades'[1].price
          /\ BucketKey(current_candle'[1].timestamp)
                = BucketKey(live_trades'[1].timestamp)]_vars

\* a late tick for a bucket that is already in the history: the history
\* keeps its candle of that bucket and a new candle has been started at the
\* same bucket key
C34_Witness ==
    /\ candle_interval = "OneMinute"
    /\ Len(live_candles) = 2
    /\ BucketKey(live_candles[1].timestamp) = 60
    /\ live_candles[1].trade_count = 1
    /\ BucketKey(live_candles[2].timestamp) = 120
    /\ current_candle # None
    /\ BucketKey(current_candle[1].timestamp) = 60
    /\ current_candle[1].trade_count = 1

(* ---- C40 ---- *)

\* the candles that exist: the history and the in-progress candle
AllCandles ==
    live_candles \o current_candle

RECURSIVE TradeCountSum(_)
TradeCountSum(candles) ==
    IF candles = <<>> THEN 0
    ELSE Head(candles).trade_count + TradeCountSum(Tail(candles))

RECURSIVE CandleVolumeSum(_)
CandleVolumeSum(candles) ==
    IF candles = <<>> THEN 0
    ELSE Head(candles).volume + CandleVolumeSum(Tail(candles))

\* C40: for the ticks ingested since the last clear_live_data, with a fixed
\* interval and no history eviction, the trade_counts of the history and of
\* the in-progress candle add up to the number of ticks, and their volumes
\* to the sum of the tick volumes, a missing volume counting as 0.
C40_Conservation ==
    /\ TradeCountSum(AllCandles) = Len(live_trades)
    /\ TradeCountSum(AllCandles) = total_trade_count
    /\ CandleVolumeSum(AllCandles) = VolumeSum(live_trades)
    /\ CandleVolumeSum(AllCandles) = total_live_volume

\* three ticks, one of them without a volume, over a rollover
C40_Witness ==
    /\ Len(live_trades) = 3
    /\ Len(live_candles) = 1
    /\ live_candles[1].trade_count = 2
    /\ current_candle # None
    /\ current_candle[1].trade_count = 1
    /\ \E i \in 1..3 : live_trades[i].volume = None
    /\ CandleVolumeSum(AllCandles) = 200

(* ==================== the engine's attempt counter ===================== *)

(* ---- C36 ---- *)

\* C36: in every reachable state of the engine 0 <= attempt counter <= 5,
\* so 2^attempt never overflows; every Reconnecting event carries an
\* attempt in 1..5 and a next_retry_in of at most 32s, which is the delay
\* the engine then sleeps.
C36_AttemptBounded ==
    [][/\ current_attempt' \in 0..5
       /\ ~Pow2Overflows(current_attempt')
       /\ \A i \in 1..Len(statusLog') :
             statusLog'[i].tag = "Reconnecting"
             => /\ statusLog'[i].attempt \in 1..5
                /\ statusLog'[i].next_retry_in <= 32
       /\ (Len(statusLog') > Len(statusLog)
           /\ Last(statusLog').tag = "Reconnecting")
          => /\ Last(statusLog').attempt = current_attempt'
             /\ pc' = "sleep"
             /\ sleepLeft' = Last(statusLog').next_retry_in]_vars

\* the fifth retry has been announced and its 32 seconds are being slept
C36_Witness ==
    /\ statusLog # <<>>
    /\ Last(statusLog) = StReconnecting(5, 32)
    /\ current_attempt = 5
    /\ pc = "sleep"
    /\ sleepLeft = 32

(* ---- C33 ---- *)

\* C33: if the candle interval is changed while a candle is in progress,
\* that candle is finalized into history before the next tick is aggregated
\* under the new interval (the tick never updates it in place), and the
\* candles already in history are left unchanged.
C33_IntervalChange ==
    [][/\ (Ingested /\ current_candle # None /\ tick_interval # candle_interval)
          => /\ Len(live_candles) < 60
                => live_candles' = Append(live_candles, current_candle[1])
             /\ current_candle' # None
             /\ current_candle'[1].trade_count = 1
       /\ candle_interval' # candle_interval
          => live_candles' = live_candles]_vars

(* ================= properties of the price channel ===================== *)

\* this step is run_app taking a LivePrice from the channel
Taken ==
    Len(rx') < Len(rx)

(* ---- C35 ---- *)

\* C35: every LivePrice run_app takes from the channel while live updates
\* are enabled is ingested into the live price, the tape, the totals and the
\* candles, whether or not the throttle permits a display update.
C35_TakenIsIngested ==
    [][(Taken /\ live_updates_enabled)
          => /\ Ingested
             /\ total_trade_count' = total_trade_count + 1
             /\ last_live_price' = Some(Head(rx).price)]_vars

(* ---- C32 ---- *)

\* C32: two trades ingested one after the other go into the same candle
\* exactly when the timestamps of their LivePrice events give the same
\* bucket key, whenever run_app processes them.
C32_BucketByEventTime ==
    [][(Ingested /\ last_taken # None /\ current_candle # None)
          => ((current_candle'[1].trade_count
                  = current_candle[1].trade_count + 1)
              <=> (BucketKey(last_taken[1].timestamp)
                      = BucketKey(Head(rx).timestamp)))]_vars

(* ---- C38 ---- *)

\* C38: a LivePrice that is ingested was produced for the symbol on
\* display: after a switch of instrument no event of the earlier one is
\* applied to the live data.
C38_NoCrossFeed ==
    [][Ingested => Head(rx).symbol = symbol]_vars

(* ---- C39 ---- *)

\* C39: when stop_websocket has aborted the engine, the last status event
\* the engine emitted is terminal, Disconnected or Error{recoverable:false}:
\* it is never aborted with Connecting, Connected or Reconnecting as its
\* last status.
C39_TerminalAtAbort ==
    pc = "aborted"
    => /\ statusLog # <<>>
       /\ \/ Last(statusLog).tag = "Disconnected"
          \/ IsFatalError(Last(statusLog))

(* ---- C37 ---- *)

\* C37: if the stop flag is never set and every session fails in the end,
\* at connect time, at subscribe or by a drop after being connected, the
\* engine eventually returns: it gives up with a terminal error instead of
\* reconnecting forever.
C37_Termination ==
    <>(pc = "done")

====
